---- MODULE Spec2Model ----
(***************************************************************************)
(* Verification model of the mojave_ufo Framer components.                 *)
(*                                                                         *)
(* The repository is a set of variants of one component, SelfHostedSpline. *)
(* Each variant is modelled as its own state machine with its own          *)
(* specification; the variables of the other variants stay at the values   *)
(* of a component that was never constructed.                              *)
(*                                                                         *)
(*   SpecResolver  responsive resolver of part_000 / part_001 / part_004   *)
(*   SpecReveal    reveal sequencer of SelfHostedSpline.tsx                *)
(*   SpecStable    stable-width freeze of part_004                         *)
(*   SpecViewer    viewer element life cycle of part_005                   *)
(*   SpecUrl       URL helpers of SelfHostedSpline.tsx                     *)
(*                                                                         *)
(* Strings are sequences of one-character strings, so that trim, endsWith, *)
(* toLowerCase and concatenation are computed and not assumed.             *)
(***************************************************************************)
EXTENDS Integers, Sequences, FiniteSets, TLC

(***************************************************************************)
(* String helpers (JavaScript String.prototype semantics on the alphabet   *)
(* the model uses).                                                        *)
(***************************************************************************)

\* JS truthiness of a string: the empty string is falsy.
Truthy(s) == s # <<>>

\* a || b on strings.
Or(a, b) == IF Truthy(a) THEN a ELSE b

\* s.replace(/\/+$/, ""): drop every trailing slash.
RECURSIVE StripTrailingSlashes(_)
StripTrailingSlashes(s) ==
    IF s # <<>> /\ s[Len(s)] = "/"
    THEN StripTrailingSlashes(SubSeq(s, 1, Len(s) - 1))
    ELSE s

\* s.replace(/^\/+/, ""): drop every leading slash.
RECURSIVE StripLeadingSlashes(_)
StripLeadingSlashes(s) ==
    IF s # <<>> /\ s[1] = "/"
    THEN StripLeadingSlashes(Tail(s))
    ELSE s

(***************************************************************************)
(* Responsive resolver (part_000, part_001, part_004 share this code).     *)
(***************************************************************************)

VARIABLES
    effectsRun,       \* the mount effects of the component have run
    isStatic,         \* useIsStaticRenderer()
    innerWidth,       \* window.innerWidth
    bp,               \* React state bp / currentBreakpoint
    gitHubBaseUrl,    \* prop
    splineProdUrl,    \* prop (the configured fallback URL)
    preflightCheck,   \* prop
    mountWhenInView,  \* prop
    inView,           \* React state inView
    resolvedUrl,      \* React state resolvedUrl
    error,            \* React state error
    runs,             \* one record per run of the resolver effect (its closure)
    lastWriter,       \* history: index in runs of the run that wrote resolvedUrl/error last
    lastReport        \* history: what the current IntersectionObserver reported last
                      \* ("yes", "no"), "none" when it has not reported

resolverVars ==
    << effectsRun, isStatic, innerWidth, bp, gitHubBaseUrl, splineProdUrl,
       preflightCheck, mountWhenInView, inView, resolvedUrl, error, runs, lastWriter,
       lastReport >>

(***************************************************************************)
(* Reveal sequencer of SelfHostedSpline.tsx: variables.                    *)
(***************************************************************************)

VARIABLES
    variant,       \* 'mobile' | 'desktop', locked by useState at mount
    sceneUrl,      \* useMemo over repoUrl and variant
    box,           \* React state box {w, h}
    autoPoster,    \* React state autoPoster: TRUE when a poster URL is set
    posterProbe,   \* "pending" while resolvePoster is probing, else "idle"
    ready,         \* React state ready
    dirty,         \* a state or prop changed and React has not rendered yet
    viewerRefSet,  \* viewerRef.current is the mounted <spline-viewer>
    loadPending,   \* the mounted viewer is loading and has not fired load-complete
    depsEl,        \* viewerRef.current as the last render saw it: "null", "same"
                   \* (the element mounted now) or "old" (an element since removed)
    depsUrl,       \* sceneUrl as the last render saw it
    seq,           \* closure of the last run of the sequencer effect
    rafQueue       \* requestAnimationFrame callbacks, in request order

revealVars ==
    << variant, sceneUrl, box, autoPoster, posterProbe, ready, dirty, viewerRefSet,
       loadPending, depsEl, depsUrl, seq, rafQueue >>

(***************************************************************************)
(* Stable-width freeze of part_004: variables.                             *)
(***************************************************************************)

VARIABLES
    clock,           \* time, in ticks of TickMs
    contentW,        \* width of the container (contentRect.width, el.clientWidth)
    contentH,        \* height of the container
    lastWidth,       \* let lastWidth of the effect closure
    t,               \* let t of the effect closure: deadline of the timer, -1 for none
    frozenPxHeight,  \* React state frozenPxHeight, 0 for null
    trail,           \* history: the measurements the ResizeObserver delivered
    freezes          \* history: the calls of setFrozenPxHeight, each with its time and
                     \* the number of measurements delivered before it

stableVars ==
    << clock, contentW, contentH, lastWidth, t, frozenPxHeight, trail, freezes >>

(***************************************************************************)
(* Viewer lifecycle of part_005: variables.                                *)
(***************************************************************************)

VARIABLES
    alive,                \* the component is in the React tree
    gitHubUrl,            \* prop gitHubUrl
    mounted,              \* React state mounted
    viewerReady,          \* React state viewerReady
    bounds,               \* React state bounds
    remountTick,          \* reducer state remountTick
    remountBlockedFor,    \* remountBlockedUntil.current - nowMs(), 0 when in the past
    remountUnblockTimer,  \* ms until the timer of remountUnblockTimer.current fires, -1 for null
    viewerElRef,          \* viewerElRef.current: index of the element, 0 for null
    elements,             \* every <spline-viewer> created: attached, url, number of dispose() calls
    loads,                \* pending ensureSplineViewer() continuations: their cancelled flags
    needsRender,          \* a state or prop change waits for its render
    committed             \* values of the effect dependencies at the last commit

viewerVars ==
    << alive, gitHubUrl, mounted, viewerReady, bounds, remountTick, remountBlockedFor,
       remountUnblockTimer, viewerElRef, elements, loads, needsRender, committed >>

(***************************************************************************)
(* URL helpers of SelfHostedSpline.tsx: variables.                         *)
(*                                                                         *)
(* A string is a sequence of symbols; a symbol is a piece of text that the *)
(* helpers never split ("https://", "acme", "/", ".splinecode", " ").      *)
(***************************************************************************)

VARIABLES
    repoUrl,          \* prop repoUrl
    optsMobile,       \* variant === 'mobile'
    variantSceneUrl,  \* value returned by deriveVariantSceneUrlFromRepo
    plainSceneUrl,    \* value returned by deriveSceneUrlFromRepo
    memoSceneUrl      \* value of the sceneUrl memo

urlVars == << repoUrl, optsMobile, variantSceneUrl, plainSceneUrl, memoSceneUrl >>

(***************************************************************************)
(* Zoom on load (part_001; part_000 and part_004 have one zoom prop).      *)
(*                                                                         *)
(* A number is a record: fin (Number.isFinite) and, when finite, its value *)
(* in tenths.                                                              *)
(***************************************************************************)

VARIABLES
    mobileZoom,         \* prop mobileZoom
    tabletZoom,         \* prop tabletZoom
    desktopZoom,        \* prop desktopZoom
    currentBreakpoint,  \* React state currentBreakpoint
    zoomLoads           \* history: per onLoad, zoomForBp and the setZoom call it made

zoomVars == << mobileZoom, tabletZoom, desktopZoom, currentBreakpoint, zoomLoads >>


\* State of the two <spline-viewer> loaders of one document:
\* ensureSplineViewer (module variable viewerLoaderPromise) and
\* loadSplineViewer (window.__SPLINE__.loading, here stateLoading).  A promise
\* is the index of its load in loaderLoads, 0 when the variable is
\* null/absent.  loaderCalls keeps one record per call: the load it started or
\* joined, what it observed on entry and the value its promise settled to.
VARIABLES elementDefined, splineViewerLoaded, scriptTag, viewerLoaderPromise,
          stateLoading, loaderLoads, loaderCalls

loaderVars == << elementDefined, splineViewerLoaded, scriptTag,
                 viewerLoaderPromise, stateLoading, loaderLoads, loaderCalls >>


\* State of ensureThree in one window.  windowTHREE is window.THREE ("none"
\* when unset, otherwise the name of the copy it holds); threeReady is
\* window.__THREE_READY__ ("none" when unset, otherwise the state of the
\* promise: "pending", "rejected" or the copy it resolved to); threeStep is
\* the position of the load sequence; threeImports lists the steps the
\* sequence started; threeCalls keeps one record per call.
VARIABLES windowTHREE, threeReady, threeStep, threeImports, threeCalls

threeVars == << windowTHREE, threeReady, threeStep, threeImports, threeCalls >>


\* Variant lock of SelfHostedSpline.tsx: the window, the state of
\* useState(variant), the repoUrl prop, the sceneUrl memo and the measured box.
VARIABLES
    viewport,       \* the window's size now
    mountViewport,  \* history: the window's size at mount
    hasMatchMedia,  \* 'matchMedia' in window
    lockVariant,    \* React state variant
    lockRepoUrl,    \* prop repoUrl
    lockSceneUrl,   \* value of the sceneUrl memo
    lockBox,        \* React state box (container measurement)
    lockRenderW     \* history: the window's width at the last render

lockVars ==
    << viewport, mountViewport, hasMatchMedia, lockVariant, lockRepoUrl, lockSceneUrl,
       lockBox, lockRenderW >>


\* Error pane of part_000: the fallbackMessage option as the host passed it.
VARIABLES
    propsFallbackMessage   \* props.fallbackMessage, Undefined when not supplied

paneVars == << propsFallbackMessage >>


\* Responsive components (part_001, part_004), render by render: what the
\* last committed render saw, and whether its effects have run.
VARIABLES
    rsEffectsRun,   \* the mount effects have run
    rsWidth,        \* window.innerWidth
    rsBp,           \* React state bp / currentBreakpoint
    rsBase,         \* prop gitHubBaseUrl
    rsProd,         \* prop splineProdUrl
    rsPre,          \* prop preflightCheck
    rsMountWhenInView, \* prop mountWhenInView
    rsInView,       \* React state inView
    rsResolved,     \* React state resolvedUrl
    rsError,        \* React state error
    rsDeps,         \* [gh, prod, pre] of the last run of the resolver effect
    rsPending,      \* the last committed render changed the deps and its effects have not run
    rsProbe         \* the live run awaits: "idle", "primary" (ok(ghUrl)), "fallback"

responsiveVars ==
    << rsEffectsRun, rsWidth, rsBp, rsBase, rsProd, rsPre, rsMountWhenInView, rsInView,
       rsResolved, rsError, rsDeps, rsPending, rsProbe >>


\* Telemetry muting of SelfHostedSpline.tsx: the patched globals of the page
\* and what each mounted instance captured.
VARIABLES
    isCanvas,       \* RenderTarget is the canvas
    globals,        \* function now installed in each patched global
    patchMounted,   \* instance -> its effects have run and not been cleaned up
    patchOrig,      \* instance -> the functions its effects captured (orig*)
    wrappers        \* number of wrapper functions created so far

patchVars == << isCanvas, globals, patchMounted, patchOrig, wrappers >>


\* parseAspect of part_004 and the height frozen from its ratio.
VARIABLES
    apInput,    \* the aspect string the render passes to parseAspect
    apRatio,    \* const ratio: a fraction [n, d], NoRatio before the render
    apFrozen    \* React state frozenPxHeight

aspectVars == << apInput, apRatio, apFrozen >>


\* Warm-fetch registry of part_005.
VARIABLES
    warmFetchRegistry,  \* href -> number of the registered record, 0 for none
    warmRecords,        \* every WarmRecord created, in order of creation
    warmHolders         \* every release function returned, in order of the calls

warmVars == << warmFetchRegistry, warmRecords, warmHolders >>

\* Number of times the resolver effect may run in one behaviour.
MaxRuns == 3

\* Scene file names (props mobileFileName / tabletFileName / desktopFileName).
\* As in the defaults, tablet and desktop share one file.
mobileFileName == << "m" >>
tabletFileName == << "d" >>
desktopFileName == << "d" >>

\* Values the props take in the model.
BaseUrls == { << "b", "/" >>, << "c" >> }
ProdUrls == { << >>, << "p" >> }
Widths == { 640, 641, 1024, 1025 }

MobileMax == 640
TabletMax == 1024

Classify_StuckDesktop(w) == "desktop"

Classify_TiesUp(w) ==
    IF w < MobileMax THEN "mobile"
    ELSE IF w < TabletMax THEN "tablet"
    ELSE "desktop"

\* setBp(w <= 640 ? "mobile" : w <= 1024 ? "tablet" : "desktop")
Classify(w) ==
    IF w <= MobileMax THEN "mobile"
    ELSE IF w <= TabletMax THEN "tablet"
    ELSE "desktop"

\* const sceneFile = bp === "mobile" ? mobileFileName : bp === "tablet" ? ...
SceneFile(b) ==
    IF b = "mobile" THEN mobileFileName
    ELSE IF b = "tablet" THEN tabletFileName
    ELSE desktopFileName

\* const ghUrl = base.replace(/\/+$/, "") + "/" + sceneFile.replace(/^\/+/, "")
GhUrl(base, file) ==
    StripTrailingSlashes(base) \o << "/" >> \o StripLeadingSlashes(file)

CouldNotLoad == << "Could not load: " >>
NoUrl == << "(no url)" >>

\* `Could not load: ${ghUrl || splineProdUrl || "(no url)"}`
DiagnosticUrl(gh, prod) == Or(gh, Or(prod, NoUrl))
Diagnostic_Empty(gh, prod) == << >>
Diagnostic(gh, prod) == CouldNotLoad \o DiagnosticUrl(gh, prod)

\* setResolvedUrl(ghUrl || splineProdUrl || "") on the failure path
FailureUrl(gh, prod) == Or(gh, Or(prod, << >>))

\* The guard in front of every write after an await.
MayWrite_Always(r) == TRUE
MayWrite(r) == ~r.cancelled

\* The URL a successful primary probe resolves to.
PrimaryResolved_Fallback(r) == Or(r.prod, r.gh)
PrimaryResolved(r) == r.gh

\* A finished stale run holds nothing the program can observe any more.
DoneStale ==
    [ gh |-> << >>, prod |-> << >>, pre |-> TRUE, pc |-> "done", cancelled |-> TRUE,
      okP |-> "?", okF |-> "?", fetches |-> << >>, late |-> FALSE ]

\* late records that the run finished after it had been cancelled.
Scrub(r) ==
    IF r.pc = "done" /\ r.cancelled THEN [DoneStale EXCEPT !.late = r.late] ELSE r

\* The body of the resolver effect up to its first await, for the deps
\* (gh, prod, pre). okP / okF record what ok(ghUrl) and ok(splineProdUrl)
\* returned to this run: "?" while not returned, then "yes" or "no".
StartRun(gh, prod, pre) ==
    [ gh |-> gh, prod |-> prod, pre |-> pre, cancelled |-> FALSE,
      okP |-> "?", okF |-> "?", late |-> FALSE,
      pc |-> IF ~pre THEN "done"
             ELSE IF Truthy(gh) THEN "headP"
             ELSE IF Truthy(prod) THEN "headF"
             ELSE "done",
      fetches |-> IF ~pre THEN << >>
                  ELSE IF Truthy(gh) THEN << << "HEAD", gh >> >>
                  ELSE IF Truthy(prod) THEN << << "HEAD", prod >> >>
                  ELSE << >> ]

\* resolvedUrl after the synchronous part of the effect body.
StartUrl(gh, prod, pre) ==
    IF ~pre THEN Or(gh, prod)
    ELSE IF ~Truthy(gh) /\ ~Truthy(prod) THEN FailureUrl(gh, prod)
    ELSE << >>

\* error after the synchronous part of the effect body.
StartError(gh, prod, pre) ==
    IF pre /\ ~Truthy(gh) /\ ~Truthy(prod) THEN Diagnostic(gh, prod) ELSE << >>

\* return () => { cancelled = true }
Cancel(r) == Scrub([r EXCEPT !.cancelled = TRUE])

\* React re-runs the effect when one of [ghUrl, splineProdUrl, preflightCheck]
\* differs from the values of the previous run.
DepsChanged(gh, prod, pre) ==
    LET cur == runs[Len(runs)]
    IN  cur.gh # gh \/ cur.prod # prod \/ cur.pre # pre

\* Re-render with the given props and breakpoint, followed by the effects.
Rerender(base, b, prod, pre) ==
    LET gh == GhUrl(base, SceneFile(b))
    IN  IF DepsChanged(gh, prod, pre)
        THEN /\ Len(runs) < MaxRuns
             /\ runs' = [ i \in 1..(Len(runs) + 1) |->
                           IF i = Len(runs) + 1 THEN StartRun(gh, prod, pre)
                           ELSE IF i = Len(runs) THEN Cancel(runs[i])
                           ELSE runs[i] ]
             /\ resolvedUrl' = StartUrl(gh, prod, pre)
             /\ error' = StartError(gh, prod, pre)
             /\ lastWriter' = Len(runs) + 1
        ELSE UNCHANGED << runs, resolvedUrl, error, lastWriter >>

\* Everything but the resolver's variables.
notResolver == << revealVars, stableVars, viewerVars, urlVars, zoomVars, loaderVars, threeVars, lockVars, paneVars, responsiveVars, patchVars, aspectVars, warmVars >>

\* State after construction: the first render has happened, no effect yet.
\* useState("desktop"), useState(""), useState(""), useState(!mountWhenInView).
InitResolver ==
    /\ effectsRun = FALSE
    /\ isStatic \in BOOLEAN
    /\ innerWidth \in Widths
    /\ bp = "desktop"
    /\ gitHubBaseUrl \in BaseUrls
    /\ splineProdUrl \in ProdUrls
    /\ preflightCheck \in BOOLEAN
    /\ mountWhenInView \in BOOLEAN
    /\ inView = ~mountWhenInView
    /\ resolvedUrl = << >>
    /\ error = << >>
    /\ runs = << >>
    /\ lastWriter = 0
    /\ lastReport = "none"

\* The mount effects, in source order: the breakpoint effect calls onResize()
\* (setBp), the resolver effect runs for the first render's ghUrl (bp is still
\* "desktop"), the IntersectionObserver is installed. The render caused by setBp
\* follows and re-runs the resolver effect when ghUrl changed.
MountEffects ==
    /\ ~effectsRun
    /\ effectsRun' = TRUE
    /\ bp' = Classify(innerWidth)
    /\ LET gh0 == GhUrl(gitHubBaseUrl, SceneFile("desktop"))
           gh1 == GhUrl(gitHubBaseUrl, SceneFile(Classify(innerWidth)))
           r0 == StartRun(gh0, splineProdUrl, preflightCheck)
           r1 == StartRun(gh1, splineProdUrl, preflightCheck)
       IN  IF gh1 = gh0
           THEN /\ runs' = << r0 >>
                /\ lastWriter' = 1
                /\ resolvedUrl' = StartUrl(gh0, splineProdUrl, preflightCheck)
                /\ error' = StartError(gh0, splineProdUrl, preflightCheck)
           ELSE /\ runs' = << Cancel(r0), r1 >>
                /\ lastWriter' = 2
                /\ resolvedUrl' = StartUrl(gh1, splineProdUrl, preflightCheck)
                /\ error' = StartError(gh1, splineProdUrl, preflightCheck)
    /\ UNCHANGED << isStatic, innerWidth, gitHubBaseUrl, splineProdUrl,
                    preflightCheck, mountWhenInView, inView >>
    /\ UNCHANGED lastReport
    /\ UNCHANGED notResolver

\* window "resize": onResize reads window.innerWidth and sets bp.
OnResize(w) ==
    /\ effectsRun
    /\ innerWidth' = w
    /\ bp' = Classify(w)
    /\ Rerender(gitHubBaseUrl, Classify(w), splineProdUrl, preflightCheck)
    /\ UNCHANGED << effectsRun, isStatic, gitHubBaseUrl, splineProdUrl,
                    preflightCheck, mountWhenInView, inView >>
    /\ UNCHANGED lastReport
    /\ UNCHANGED notResolver

\* The host passes a new gitHubBaseUrl.
SetGitHubBaseUrl(base) ==
    /\ effectsRun
    /\ base # gitHubBaseUrl
    /\ gitHubBaseUrl' = base
    /\ Rerender(base, bp, splineProdUrl, preflightCheck)
    /\ UNCHANGED << effectsRun, isStatic, innerWidth, bp, splineProdUrl,
                    preflightCheck, mountWhenInView, inView >>
    /\ UNCHANGED lastReport
    /\ UNCHANGED notResolver

\* The host passes a new splineProdUrl.
SetSplineProdUrl(prod) ==
    /\ effectsRun
    /\ prod # splineProdUrl
    /\ splineProdUrl' = prod
    /\ Rerender(gitHubBaseUrl, bp, prod, preflightCheck)
    /\ UNCHANGED << effectsRun, isStatic, innerWidth, bp, gitHubBaseUrl,
                    preflightCheck, mountWhenInView, inView >>
    /\ UNCHANGED lastReport
    /\ UNCHANGED notResolver

\* The host toggles preflightCheck.
SetPreflightCheck ==
    /\ effectsRun
    /\ preflightCheck' = ~preflightCheck
    /\ Rerender(gitHubBaseUrl, bp, splineProdUrl, ~preflightCheck)
    /\ UNCHANGED << effectsRun, isStatic, innerWidth, bp, gitHubBaseUrl,
                    splineProdUrl, mountWhenInView, inView >>
    /\ UNCHANGED lastReport
    /\ UNCHANGED notResolver

\* IntersectionObserver callback: setInView(entry.isIntersecting). The observer
\* exists only when mountWhenInView was true when its effect ran.
OnIntersect(isIntersecting) ==
    /\ effectsRun
    /\ mountWhenInView
    /\ inView' = isIntersecting
    /\ lastReport' = IF isIntersecting THEN "yes" ELSE "no"
    /\ UNCHANGED << effectsRun, isStatic, innerWidth, bp, gitHubBaseUrl, splineProdUrl,
                    preflightCheck, mountWhenInView, resolvedUrl, error, runs, lastWriter >>
    /\ UNCHANGED notResolver

\* The host toggles mountWhenInView: the observer effect is cleaned up
\* (io.disconnect()) and runs again; it installs a new observer when the flag
\* is now true and returns at once when it is false. inView is not set.
SetMountWhenInView ==
    /\ effectsRun
    /\ mountWhenInView' = ~mountWhenInView
    /\ lastReport' = "none"
    /\ UNCHANGED << effectsRun, isStatic, innerWidth, bp, gitHubBaseUrl, splineProdUrl,
                    preflightCheck, inView, resolvedUrl, error, runs, lastWriter >>
    /\ UNCHANGED notResolver

\* What run i does once `await ok(url)` has returned with the given result.
\* (The continuation of the async IIFE; it runs to the next fetch or to the end.)
AfterProbe(i, isOk) ==
    LET primary == runs[i].pc \in { "headP", "getP" }
        yesNo == IF isOk THEN "yes" ELSE "no"
        r == IF primary THEN [runs[i] EXCEPT !.okP = yesNo]
             ELSE [runs[i] EXCEPT !.okF = yesNo]
        settle(url, err) ==
            /\ runs' = [runs EXCEPT
                          ![i] = Scrub([r EXCEPT !.pc = "done", !.late = r.cancelled])]
            /\ IF MayWrite(r)
               THEN /\ resolvedUrl' = url
                    /\ error' = err
                    /\ lastWriter' = i
               ELSE UNCHANGED << resolvedUrl, error, lastWriter >>
    IN  IF isOk
        THEN settle(IF primary THEN PrimaryResolved(r) ELSE r.prod, error)
        ELSE IF primary /\ Truthy(r.prod)
        THEN /\ runs' = [runs EXCEPT ![i] =
                          [r EXCEPT !.pc = "headF",
                                    !.fetches = Append(@, << "HEAD", r.prod >>)]]
             /\ UNCHANGED << resolvedUrl, error, lastWriter >>
        ELSE settle(FailureUrl(r.gh, r.prod), Diagnostic(r.gh, r.prod))

\* The URL run i is probing.
ProbedUrl(r) == IF r.pc \in { "headP", "getP" } THEN r.gh ELSE r.prod

\* A probe that gives up after the HEAD.
HeadDone_NoGet(i, res) ==
    /\ i \in 1..Len(runs)
    /\ runs[i].pc \in { "headP", "headF" }
    /\ AfterProbe(i, res = "ok")
    /\ UNCHANGED << effectsRun, isStatic, innerWidth, bp, gitHubBaseUrl, splineProdUrl,
                    preflightCheck, mountWhenInView, inView >>
    /\ UNCHANGED lastReport
    /\ UNCHANGED notResolver

\* ok(url): a HEAD response that is ok makes the probe succeed; anything else
\* (a response that is not ok, a thrown error) is followed by a GET.
HeadDone(i, res) ==
    /\ i \in 1..Len(runs)
    /\ runs[i].pc \in { "headP", "headF" }
    /\ IF res = "ok"
       THEN AfterProbe(i, TRUE)
       ELSE /\ runs' = [runs EXCEPT
                          ![i].pc = IF runs[i].pc = "headP" THEN "getP" ELSE "getF",
                          ![i].fetches = Append(@, << "GET", ProbedUrl(runs[i]) >>)]
            /\ UNCHANGED << resolvedUrl, error, lastWriter >>
    /\ UNCHANGED << effectsRun, isStatic, innerWidth, bp, gitHubBaseUrl, splineProdUrl,
                    preflightCheck, mountWhenInView, inView >>
    /\ UNCHANGED lastReport
    /\ UNCHANGED notResolver

\* The GET of ok(url) completes: return g.ok, or false when it threw.
GetDone(i, res) ==
    /\ i \in 1..Len(runs)
    /\ runs[i].pc \in { "getP", "getF" }
    /\ AfterProbe(i, res = "ok")
    /\ UNCHANGED << effectsRun, isStatic, innerWidth, bp, gitHubBaseUrl, splineProdUrl,
                    preflightCheck, mountWhenInView, inView >>
    /\ UNCHANGED lastReport
    /\ UNCHANGED notResolver

FetchResults == { "ok", "notok", "throw" }

NextResolver ==
    \/ MountEffects
    \/ \E w \in Widths : OnResize(w)
    \/ \E base \in BaseUrls : SetGitHubBaseUrl(base)
    \/ \E prod \in ProdUrls : SetSplineProdUrl(prod)
    \/ SetPreflightCheck
    \/ \E b \in BOOLEAN : OnIntersect(b)
    \/ \E i \in 1..MaxRuns, res \in FetchResults : HeadDone(i, res)
    \/ \E i \in 1..MaxRuns, res \in FetchResults : GetDone(i, res)

\* What the component renders.
View_ViewerFirst ==
    IF isStatic THEN "placeholder"
    ELSE IF inView /\ Truthy(resolvedUrl) THEN "viewer"
    ELSE IF Truthy(error) THEN "errorPane"
    ELSE "empty"

View_IgnoresInView ==
    IF isStatic THEN "placeholder"
    ELSE IF Truthy(error) THEN "errorPane"
    ELSE IF Truthy(resolvedUrl) THEN "viewer"
    ELSE "empty"

View_StaticLast ==
    IF Truthy(error) THEN "errorPane"
    ELSE IF inView /\ Truthy(resolvedUrl) THEN "viewer"
    ELSE IF isStatic THEN "placeholder"
    ELSE "empty"

View ==
    IF isStatic THEN "placeholder"
    ELSE IF Truthy(error) THEN "errorPane"
    ELSE IF inView /\ Truthy(resolvedUrl) THEN "viewer"
    ELSE "empty"

\* The resolver together with changes of mountWhenInView at run time.
NextGate ==
    \/ NextResolver
    \/ SetMountWhenInView

vars == << resolverVars, revealVars, stableVars, viewerVars, urlVars, zoomVars, loaderVars, threeVars, lockVars, paneVars, responsiveVars, patchVars, aspectVars, warmVars >>


(***************************************************************************)
(* Reveal sequencer of SelfHostedSpline.tsx.                               *)
(*                                                                         *)
(* An event handler changes React state and marks the component dirty;     *)
(* Render is React rendering the component, committing (attaching or       *)
(* detaching the ref) and running the effects whose deps changed.          *)
(***************************************************************************)

SceneUrls == { "sceneA", "sceneB" }

\* Container measurements: setBox({ w: Math.max(1, round(width)), h: ... }).
\* The state starts at {0, 0}.
Boxes == { [w |-> 1, h |-> 1], [w |-> 800, h |-> 450] }

\* const hasSize = box.w > 1 && box.h > 1
HasSize(b) == b.w > 1 /\ b.h > 1

\* const postPlayFreezeFrames = isMobile ? 12 : 2
PostPlayFreezeFramesMobile == 12
PostPlayFreezeFramesDesktop == 2
PostPlayFreezeFrames(v) ==
    IF v = "mobile" THEN PostPlayFreezeFramesMobile ELSE PostPlayFreezeFramesDesktop

\* const playDelay = isMobile ? 450 : 80
PlayDelayMobile == 450
PlayDelayDesktop == 80

PlayDelay_Desktop(v) == PlayDelayDesktop

PlayDelay(v) == IF v = "mobile" THEN PlayDelayMobile ELSE PlayDelayDesktop

\* No run of the sequencer effect is live (el was null, or the run was cleaned up).
NoSeq ==
    [ active |-> FALSE, elSame |-> FALSE, handled |-> FALSE, done |-> FALSE,
      guardOn |-> FALSE, timeout |-> FALSE, playTimer |-> FALSE,
      t0Rendered |-> FALSE, played |-> FALSE, sized |-> FALSE, polled |-> FALSE,
      starts |-> 0, reveals |-> 0, repeats |-> 0, armedDelay |-> 0 ]

\* The effect body for a non-null el: flags cleared, listener added, the
\* 4000 ms fallback timeout armed. t0Rendered records that setTime(0) followed
\* by render() was called on the viewer by this run; played that play() was;
\* sized that a size check of this run found the element larger than 1px,
\* polled that one found it not larger; starts counts the calls of
\* startSequence, reveals the calls of setReady(true), repeats the
\* 'load-complete' events after the first; armedDelay is the delay the play
\* timer was armed with.
NewSeq ==
    [ active |-> TRUE, elSame |-> TRUE, handled |-> FALSE, done |-> FALSE,
      guardOn |-> FALSE, timeout |-> TRUE, playTimer |-> FALSE,
      t0Rendered |-> FALSE, played |-> FALSE, sized |-> FALSE, polled |-> FALSE,
      starts |-> 0, reveals |-> 0, repeats |-> 0, armedDelay |-> 0 ]

Cb(name, n) == [ cb |-> name, n |-> n, stale |-> FALSE ]

\* The ids the cleanup cancels: raf1 (waitForSize / startSequence / frameA),
\* raf2 (reveal), raf3 (startPlay) and guardRaf. holdFewFrames keeps no id.
Cancellable == { "waitForSize", "startSequence", "frameA", "reveal", "startPlay", "guard" }

\* The effect's cleanup applied to the frame queue: cancelled callbacks go,
\* a holdFewFrames chain stays and now belongs to a dead closure.
CleanupQueue(q) ==
    LET kept == SelectSeq(q, LAMBDA e : e.cb \notin Cancellable)
    IN  [ k \in 1..Len(kept) |-> [kept[k] EXCEPT !.stale = TRUE] ]

\* const revealSafely = () => { if (done) return; done = true; setReady(true) }
RevealSafely(st) ==
    IF st.seq.done THEN st
    ELSE [st EXCEPT !.seq.done = TRUE, !.seq.reveals = @ + 1,
                    !.ready = TRUE, !.dirty = (@ \/ ~st.ready)]

\* What getBoundingClientRect may give for the viewer element.
ElementRects == { [w |-> 1, h |-> 450], [w |-> 800, h |-> 1], [w |-> 2, h |-> 2] }

\* if (r.width > 1 && r.height > 1)
RectHasSize(r) == r.w > 1 /\ r.h > 1

WaitForSize_NoCheck(st, sizeOk) ==
    [st EXCEPT !.q = Append(@, Cb("startSequence", 0)),
               !.seq.polled = (@ \/ ~sizeOk)]

\* const waitForSize: the rect of the element is larger than 1px (sizeOk) or not.
WaitForSize(st, sizeOk) ==
    [st EXCEPT !.q = Append(@, Cb(IF sizeOk THEN "startSequence" ELSE "waitForSize", 0)),
               !.seq.sized = sizeOk,
               !.seq.polled = (@ \/ ~sizeOk)]

OnLoadAny_Unguarded(st, sizeOk) == WaitForSize([st EXCEPT !.seq.handled = TRUE], sizeOk)

\* const onLoadAny = () => { if (handled) return; handled = true; ...; waitForSize() }
OnLoadAny(st, sizeOk) ==
    IF st.seq.handled THEN st
    ELSE WaitForSize([st EXCEPT !.seq.handled = TRUE], sizeOk)

\* The part of the state the sequencer's callbacks work on.
SeqState == [ seq |-> seq, q |-> rafQueue, ready |-> ready, dirty |-> dirty ]

SetSeqState(st) ==
    /\ seq' = st.seq
    /\ rafQueue' = st.q
    /\ ready' = st.ready
    /\ dirty' = st.dirty

notReveal == << resolverVars, stableVars, viewerVars, urlVars, zoomVars, loaderVars, threeVars, lockVars, paneVars, responsiveVars, patchVars, aspectVars, warmVars >>

\* State after the first render: nothing measured, no viewer, no poster.
InitReveal ==
    /\ variant \in { "mobile", "desktop" }
    /\ sceneUrl \in SceneUrls
    /\ box = [w |-> 0, h |-> 0]
    /\ autoPoster = FALSE
    /\ posterProbe = "pending"
    /\ ready = FALSE
    /\ dirty = FALSE
    /\ viewerRefSet = FALSE
    /\ loadPending = FALSE
    /\ depsEl = "null"
    /\ depsUrl = sceneUrl
    /\ seq = NoSeq
    /\ rafQueue = << >>

\* ResizeObserver callback: setBox with a fresh object, so React always renders.
OnBox(b) ==
    /\ box' = b
    /\ dirty' = TRUE
    /\ UNCHANGED << variant, sceneUrl, autoPoster, posterProbe, ready, viewerRefSet,
                    loadPending, depsEl, depsUrl, seq, rafQueue >>
    /\ UNCHANGED notReveal

\* resolvePoster ends: a candidate loaded (setAutoPoster(url)) or none did
\* (setAutoPoster(undefined)). React renders only when the state changes.
PosterResult(found) ==
    /\ posterProbe = "pending"
    /\ posterProbe' = "idle"
    /\ autoPoster' = found
    /\ dirty' = (dirty \/ autoPoster # found)
    /\ UNCHANGED << variant, sceneUrl, box, ready, viewerRefSet, loadPending,
                    depsEl, depsUrl, seq, rafQueue >>
    /\ UNCHANGED notReveal

\* The host passes a repoUrl that derives another scene URL.
SetRepoUrl(u) ==
    /\ u # sceneUrl
    /\ sceneUrl' = u
    /\ dirty' = TRUE
    /\ UNCHANGED << variant, box, autoPoster, posterProbe, ready, viewerRefSet,
                    loadPending, depsEl, depsUrl, seq, rafQueue >>
    /\ UNCHANGED notReveal

ResetReady_Never(urlChanged, r) == r

\* useEffect(() => { setReady(false) }, [sceneUrl])
ResetReady(urlChanged, r) == IF urlChanged THEN FALSE ELSE r

\* React renders. The deps array [viewerRef.current, sceneUrl, variant] is
\* built during the render, before the commit attaches or detaches the ref.
Render ==
    /\ dirty
    /\ LET elNow == IF viewerRefSet THEN "same" ELSE "null"
           urlChanged == sceneUrl # depsUrl
           seqDepsChanged == urlChanged \/ elNow # depsEl
           mountedAfter == HasSize(box)
           readyAfter == ResetReady(urlChanged, ready)
       IN  /\ viewerRefSet' = mountedAfter
           /\ depsEl' = IF elNow = "same" /\ ~mountedAfter THEN "old" ELSE elNow
           /\ depsUrl' = sceneUrl
           /\ loadPending' = IF mountedAfter /\ (~viewerRefSet \/ urlChanged) THEN TRUE
                             ELSE IF ~mountedAfter THEN FALSE
                             ELSE loadPending
           /\ posterProbe' = IF urlChanged THEN "pending" ELSE posterProbe
           /\ ready' = readyAfter
           /\ dirty' = (readyAfter # ready)
           /\ IF seqDepsChanged
              THEN /\ seq' = IF mountedAfter THEN NewSeq ELSE NoSeq
                   /\ rafQueue' = CleanupQueue(rafQueue)
              ELSE /\ seq' = [seq EXCEPT !.elSame = @ /\ mountedAfter]
                   /\ UNCHANGED rafQueue
    /\ UNCHANGED << variant, sceneUrl, box, autoPoster >>
    /\ UNCHANGED notReveal

\* The viewer dispatches 'load-complete'; onLoadAny runs when a live run of the
\* effect listens on this element.
LoadComplete(sizeOk) ==
    /\ viewerRefSet /\ loadPending
    /\ loadPending' = FALSE
    /\ IF seq.active /\ seq.elSame
       THEN SetSeqState(OnLoadAny(SeqState, sizeOk))
       ELSE UNCHANGED << seq, rafQueue, ready, dirty >>
    /\ UNCHANGED << variant, sceneUrl, box, autoPoster, posterProbe, viewerRefSet,
                    depsEl, depsUrl >>
    /\ UNCHANGED notReveal

\* window.setTimeout(() => { onLoadAny(); revealSafely() }, 4000)
FallbackTimeout(sizeOk) ==
    /\ seq.active /\ seq.timeout
    /\ SetSeqState(RevealSafely(OnLoadAny([SeqState EXCEPT !.seq.timeout = FALSE], sizeOk)))
    /\ UNCHANGED << variant, sceneUrl, box, autoPoster, posterProbe, viewerRefSet,
                    loadPending, depsEl, depsUrl >>
    /\ UNCHANGED notReveal

\* One requestAnimationFrame callback runs.
\*   sizeOk     what getBoundingClientRect gives waitForSize
\*   guardOver  Date.now() > guardUntil, for guard
RunCallback(st, e, sizeOk, guardOver) ==
    IF e.cb = "waitForSize" THEN WaitForSize(st, sizeOk)
    ELSE IF e.cb = "startSequence"
    THEN \* pause(); setTime(0); render(); guardRaf = rAF(guard); raf1 = rAF(...)
         [st EXCEPT !.seq.t0Rendered = TRUE, !.seq.guardOn = TRUE,
                    !.seq.starts = @ + 1,
                    !.q = @ \o << Cb("guard", 0), Cb("frameA", 0) >>]
    ELSE IF e.cb = "guard"
    THEN IF guardOver THEN [st EXCEPT !.seq.guardOn = FALSE]
         ELSE [st EXCEPT !.seq.t0Rendered = TRUE, !.q = Append(@, Cb("guard", 0))]
    ELSE IF e.cb = "frameA"
    THEN \* setTime(0); render(); raf2 = rAF(...)
         [st EXCEPT !.seq.t0Rendered = TRUE, !.q = Append(@, Cb("reveal", 0))]
    ELSE IF e.cb = "reveal"
    THEN \* revealSafely(); raf3 = rAF(...)
         LET r == RevealSafely(st) IN [r EXCEPT !.q = Append(@, Cb("startPlay", 0))]
    ELSE IF e.cb = "startPlay"
    THEN \* playTimer = window.setTimeout(..., playDelay)
         [st EXCEPT !.seq.playTimer = TRUE, !.seq.armedDelay = PlayDelay(variant)]
    ELSE \* holdFewFrames: if (n-- <= 0) return; setTime(0); rAF(holdFewFrames)
         IF e.n <= 0 THEN st
         ELSE [st EXCEPT !.q = Append(@, [e EXCEPT !.n = e.n - 1])]

\* The callbacks requested before a frame run in it, in request order; what
\* they request runs in the next frame.
RECURSIVE RunFrame(_, _, _, _)
RunFrame(st, pending, sizeOk, guardOver) ==
    IF pending = << >> THEN st
    ELSE RunFrame(RunCallback(st, Head(pending), sizeOk, guardOver),
                  Tail(pending), sizeOk, guardOver)

AnimationFrame(sizeOk, guardOver) ==
    /\ rafQueue # << >>
    /\ SetSeqState(RunFrame([SeqState EXCEPT !.q = << >>], rafQueue, sizeOk, guardOver))
    /\ UNCHANGED << variant, sceneUrl, box, autoPoster, posterProbe, viewerRefSet,
                    loadPending, depsEl, depsUrl >>
    /\ UNCHANGED notReveal

\* The play timer fires: play(); setTime(0); the guard is cancelled; the
\* post-play rewind loop starts.
PlayTimer ==
    /\ seq.playTimer
    /\ seq' = [seq EXCEPT !.playTimer = FALSE, !.played = TRUE, !.guardOn = FALSE]
    /\ rafQueue' = Append(SelectSeq(rafQueue, LAMBDA e : e.cb # "guard" \/ e.stale),
                          Cb("hold", PostPlayFreezeFrames(variant)))
    /\ UNCHANGED << variant, sceneUrl, box, autoPoster, posterProbe, ready, dirty,
                    viewerRefSet, loadPending, depsEl, depsUrl >>
    /\ UNCHANGED notReveal

NextReveal ==
    \/ \E b \in Boxes : OnBox(b)
    \/ \E found \in BOOLEAN : PosterResult(found)
    \/ \E u \in SceneUrls : SetRepoUrl(u)
    \/ Render
    \/ \E r \in ElementRects : LoadComplete(RectHasSize(r))
    \/ \E r \in ElementRects : FallbackTimeout(RectHasSize(r))
    \/ \E r \in ElementRects, guardOver \in BOOLEAN : AnimationFrame(RectHasSize(r), guardOver)
    \/ PlayTimer

(***************************************************************************)
(* Reveal sequencer with a viewer that repeats 'load-complete'.            *)
(***************************************************************************)
\* Number of repeated 'load-complete' events one run of the effect receives.
MaxRepeats == 1

\* The viewer dispatches 'load-complete' again: the listener was added without
\* { once: true } and onLoadAny runs again.
LoadCompleteAgain(sizeOk) ==
    /\ viewerRefSet /\ ~loadPending
    /\ seq.active /\ seq.elSame
    /\ seq.repeats < MaxRepeats
    /\ SetSeqState(OnLoadAny([SeqState EXCEPT !.seq.repeats = @ + 1], sizeOk))
    /\ UNCHANGED << variant, sceneUrl, box, autoPoster, posterProbe, viewerRefSet,
                    loadPending, depsEl, depsUrl >>
    /\ UNCHANGED notReveal

NextRevealRepeat ==
    \/ NextReveal
    \/ \E r \in ElementRects : LoadCompleteAgain(RectHasSize(r))

(***************************************************************************)
(* Stable-width freeze of part_004 (freezeStrategy = "stable").            *)
(*                                                                         *)
(* Time advances in ticks of TickMs. A timer fires when the clock reaches  *)
(* its deadline: the clock does not pass a deadline.                       *)
(***************************************************************************)

\* stabilityMs = 250
StabilityMs == 250
\* The step of the stabilityMs control, used as the resolution of the clock.
TickMs == 50
StabilityTicks == StabilityMs \div TickMs

\* Last tick of the clock.
MaxClock == 12
\* Number of measurements the ResizeObserver delivers in one behaviour.
MaxMeasures == 3

\* Container sizes (width, height) the ResizeObserver reports.
Sizes == { << 0, 0 >>, << 800, 450 >>, << 800, 451 >>, << 801, 451 >> }

\* aspectPreset = "16:9": ratio = 16 / 9, as numerator and denominator.
RatioW == 16
RatioH == 9

\* Math.round(a / b) for a >= 0, b > 0.
RoundDiv(a, b) == (2 * a + b) \div (2 * b)

Max(a, b) == IF a >= b THEN a ELSE b

\* Math.max(1, Math.round(width / ratio))
FrozenHeight(width) == Max(1, RoundDiv(width * RatioH, RatioW))

\* if (w !== lastWidth)
WidthChanged_AnyMeasurement(w) == TRUE
WidthChanged(w) == w # lastWidth

\* if (t) clearTimeout(t); t = setTimeout(..., Math.max(0, stabilityMs))
Rearm_KeepPending(deadline) == IF deadline # -1 THEN deadline ELSE clock + Max(0, StabilityTicks)
Rearm(deadline) == clock + Max(0, StabilityTicks)

notStable == << resolverVars, revealVars, viewerVars, urlVars, zoomVars, loaderVars, threeVars, lockVars, paneVars, responsiveVars, patchVars, aspectVars, warmVars >>

\* State after the effect has run on mount: the observer is installed, the
\* container has not been laid out yet.
InitStable ==
    /\ clock = 0
    /\ contentW = 0 /\ contentH = 0
    /\ lastWidth = 0
    /\ t = -1
    /\ frozenPxHeight = 0
    /\ trail = << >>
    /\ freezes = << >>

\* The ResizeObserver reports a new size of the container.
OnMeasure(w, h) ==
    /\ Len(trail) < MaxMeasures
    /\ << w, h >> # << contentW, contentH >>
    /\ contentW' = w /\ contentH' = h
    /\ trail' = Append(trail, [w |-> w, h |-> h, at |-> clock])
    /\ IF WidthChanged(w)
       THEN /\ lastWidth' = w
            /\ t' = Rearm(t)
       ELSE UNCHANGED << lastWidth, t >>
    /\ UNCHANGED << clock, frozenPxHeight, freezes >>
    /\ UNCHANGED notStable

\* The timer fires: const width = el.clientWidth;
\* if (width > 0) setFrozenPxHeight(Math.max(1, Math.round(width / ratio)))
OnStableTimer ==
    /\ t # -1 /\ clock = t
    /\ t' = -1
    /\ IF contentW > 0
       THEN /\ frozenPxHeight' = FrozenHeight(contentW)
            /\ freezes' = Append(freezes, [at |-> clock, seen |-> Len(trail)])
       ELSE UNCHANGED << frozenPxHeight, freezes >>
    /\ UNCHANGED << clock, contentW, contentH, lastWidth, trail >>
    /\ UNCHANGED notStable

\* TickMs pass.
TickStable ==
    /\ clock < MaxClock
    /\ t = -1 \/ clock < t
    /\ clock' = clock + 1
    /\ UNCHANGED << contentW, contentH, lastWidth, t, frozenPxHeight, trail, freezes >>
    /\ UNCHANGED notStable

NextStable ==
    \/ \E sz \in Sizes : OnMeasure(sz[1], sz[2])
    \/ OnStableTimer
    \/ TickStable

(***************************************************************************)
(* The stable-width freeze together with what part_004 renders: the        *)
(* resolver's mount effects and the intersection reports decide the view,  *)
(* the ResizeObserver and its timer decide the frozen height.              *)
(***************************************************************************)
NextStableView ==
    \/ NextStable
    \/ MountEffects
    \/ \E isIntersecting \in BOOLEAN : OnIntersect(isIntersecting)

(***************************************************************************)
(* Viewer lifecycle of part_005.                                           *)
(*                                                                         *)
(* Time is kept relative: the model holds how long mounting is still       *)
(* blocked and how long the unblock timer still has to run.                *)
(***************************************************************************)

MIN_RENDER_SIZE == 2
ZERO_SIZE_REMOUNT_COOLDOWN_MS == 800
\* scheduleRemountCheck(ms + 5)
RemountCheckSlackMs == 5

\* Number of <spline-viewer> elements created in one behaviour.
MaxViewers == 2
\* Number of ensureSplineViewer() continuations pending at once.
MaxLoads == 2

ViewerUrls == { "u1", "u2" }
\* Rounded container boxes the layout effect measures.
Rects == { [width |-> 0, height |-> 0], [width |-> 2, height |-> 1], [width |-> 2, height |-> 2] }
\* Amounts of time that pass in one step: half a cooldown, or the time until
\* the block ends, or the time until the unblock timer is due.
Durations ==
    { d \in { ZERO_SIZE_REMOUNT_COOLDOWN_MS \div 2, remountBlockedFor, remountUnblockTimer } : d > 0 }

HasRenderableSize(b) == b.width >= MIN_RENDER_SIZE /\ b.height >= MIN_RENDER_SIZE

\* The dependencies of the effects, as the render sees them.
Deps ==
    [ mounted |-> mounted, viewerReady |-> viewerReady,
      hasRenderableSize |-> HasRenderableSize(bounds),
      gitHubUrl |-> gitHubUrl, remountTick |-> remountTick ]

\* if (viewerElRef.current) return
ViewerExists_Never(ref) == FALSE
ViewerExists(ref) == ref # 0

\* tearDownViewer: dispose(), remove(), viewerElRef.current = null.
\* A viewer state is the pair of viewerElRef.current and the elements.
TearDownViewer(v) ==
    IF v.ref = 0
    THEN v
    ELSE [ ref |-> 0,
           els |-> [v.els EXCEPT ![v.ref] =
                      [@ EXCEPT !.disposed = @ + 1, !.attached = FALSE]] ]

CreateViewer_IgnoresBlock(v) ==
    IF ~(mounted /\ viewerReady /\ HasRenderableSize(bounds)) THEN v
    ELSE IF ViewerExists(v.ref) THEN v
    ELSE [ ref |-> Len(v.els) + 1,
           els |-> Append(v.els, [attached |-> TRUE, url |-> gitHubUrl, disposed |-> 0]) ]

\* The body of the create effect.
CreateViewer(v) ==
    IF ~(mounted /\ viewerReady /\ HasRenderableSize(bounds)) THEN v
    ELSE IF remountBlockedFor > 0 THEN v
    ELSE IF ViewerExists(v.ref) THEN v
    ELSE [ ref |-> Len(v.els) + 1,
           els |-> Append(v.els, [attached |-> TRUE, url |-> gitHubUrl, disposed |-> 0]) ]

\* The collapse effect tears down and blocks: its condition.
Collapses(v) == ~HasRenderableSize(bounds) /\ v.ref # 0

\* The URL effect: el.setAttribute("url", gitHubUrl) on the current element.
UpdateUrl(v) ==
    IF v.ref # 0 /\ v.els[v.ref].url # gitHubUrl
    THEN [v EXCEPT !.els[v.ref].url = gitHubUrl]
    ELSE v

CancelLoads(q) == [k \in 1..Len(q) |-> [cancelled |-> TRUE]]

RemoveAt(q, k) == [j \in 1..(Len(q) - 1) |-> IF j < k THEN q[j] ELSE q[j + 1]]

notViewer == << resolverVars, revealVars, stableVars, urlVars, zoomVars, loaderVars, threeVars, lockVars, paneVars, responsiveVars, patchVars, aspectVars, warmVars >>

\* State after the first commit: the mount effects have run, setMounted(true)
\* and the first measurement wait for their render, the loader is pending.
InitViewer ==
    /\ alive = TRUE
    /\ gitHubUrl \in ViewerUrls
    /\ mounted = TRUE
    /\ viewerReady = FALSE
    /\ bounds \in Rects
    /\ remountTick = 0
    /\ remountBlockedFor = 0
    /\ remountUnblockTimer = -1
    /\ viewerElRef = 0
    /\ elements = << >>
    /\ loads = << [cancelled |-> FALSE] >>
    /\ needsRender = TRUE
    /\ committed = [ mounted |-> FALSE, viewerReady |-> FALSE, hasRenderableSize |-> FALSE,
                     gitHubUrl |-> gitHubUrl, remountTick |-> 0 ]

\* A render and its commit: the effects whose dependencies changed run in the
\* order of their declaration.
Commit ==
    /\ alive /\ needsRender
    /\ LET urlChanged  == committed.gitHubUrl # gitHubUrl
           sizeChanged == committed.hasRenderableSize # HasRenderableSize(bounds)
           v0 == [ref |-> viewerElRef, els |-> elements]
           v1 == IF committed # Deps THEN CreateViewer(v0) ELSE v0
           collapse == sizeChanged /\ Collapses(v1)
           v2 == IF collapse THEN TearDownViewer(v1) ELSE v1
           v3 == IF urlChanged THEN UpdateUrl(v2) ELSE v2
       IN /\ Len(v3.els) <= MaxViewers
          /\ loads' = IF urlChanged
                      THEN Append(CancelLoads(loads), [cancelled |-> FALSE])
                      ELSE loads
          /\ viewerElRef' = v3.ref
          /\ elements' = v3.els
          /\ IF collapse
             THEN /\ remountBlockedFor' =
                        IF remountBlockedFor >= ZERO_SIZE_REMOUNT_COOLDOWN_MS
                        THEN remountBlockedFor ELSE ZERO_SIZE_REMOUNT_COOLDOWN_MS
                  /\ remountUnblockTimer' = ZERO_SIZE_REMOUNT_COOLDOWN_MS + RemountCheckSlackMs
             ELSE UNCHANGED << remountBlockedFor, remountUnblockTimer >>
    /\ committed' = Deps
    /\ needsRender' = FALSE
    /\ UNCHANGED << alive, gitHubUrl, mounted, viewerReady, bounds, remountTick >>
    /\ UNCHANGED notViewer

\* update(): the container is measured; setBounds keeps prev when equal.
OnBounds(rect) ==
    /\ alive
    /\ rect # bounds
    /\ bounds' = rect
    /\ needsRender' = TRUE
    /\ UNCHANGED << alive, gitHubUrl, mounted, viewerReady, remountTick, remountBlockedFor,
                    remountUnblockTimer, viewerElRef, elements, loads, committed >>
    /\ UNCHANGED notViewer

\* The parent renders the component with another gitHubUrl.
SetGitHubUrl(u) ==
    /\ alive
    /\ u # gitHubUrl
    /\ Len(loads) < MaxLoads
    /\ gitHubUrl' = u
    /\ needsRender' = TRUE
    /\ UNCHANGED << alive, mounted, viewerReady, bounds, remountTick, remountBlockedFor,
                    remountUnblockTimer, viewerElRef, elements, loads, committed >>
    /\ UNCHANGED notViewer

\* ensureSplineViewer() resolves: if (!cancelled) setViewerReady(ok)
ViewerLoaded(k, ok) ==
    /\ k \in 1..Len(loads)
    /\ loads' = RemoveAt(loads, k)
    /\ IF ~loads[k].cancelled /\ ok # viewerReady
       THEN viewerReady' = ok /\ needsRender' = TRUE
       ELSE UNCHANGED << viewerReady, needsRender >>
    /\ UNCHANGED << alive, gitHubUrl, mounted, bounds, remountTick, remountBlockedFor,
                    remountUnblockTimer, viewerElRef, elements, committed >>
    /\ UNCHANGED notViewer

RemountCheck_NoBump ==
    /\ remountUnblockTimer = 0
    /\ remountUnblockTimer' = -1
    /\ UNCHANGED << alive, gitHubUrl, mounted, viewerReady, bounds, remountTick,
                    remountBlockedFor, viewerElRef, elements, loads, needsRender, committed >>
    /\ UNCHANGED notViewer

\* The unblock timer fires: remountUnblockTimer.current = null; bumpRemountTick()
RemountCheck ==
    /\ remountUnblockTimer = 0
    /\ remountUnblockTimer' = -1
    /\ remountTick' = remountTick + 1
    /\ needsRender' = TRUE
    /\ UNCHANGED << alive, gitHubUrl, mounted, viewerReady, bounds, remountBlockedFor,
                    viewerElRef, elements, loads, committed >>
    /\ UNCHANGED notViewer

\* d ms pass; time does not pass a timer that is due.
Elapse(d) ==
    /\ d \in Durations
    /\ remountBlockedFor > 0 \/ remountUnblockTimer > 0
    /\ remountUnblockTimer = -1 \/ d <= remountUnblockTimer
    /\ remountBlockedFor' = IF remountBlockedFor > d THEN remountBlockedFor - d ELSE 0
    /\ remountUnblockTimer' = IF remountUnblockTimer = -1 THEN -1 ELSE remountUnblockTimer - d
    /\ UNCHANGED << alive, gitHubUrl, mounted, viewerReady, bounds, remountTick,
                    viewerElRef, elements, loads, needsRender, committed >>
    /\ UNCHANGED notViewer

\* webglcontextlost reaches the listener of element e: tearDownViewer()
ContextLost(e) ==
    /\ e \in 1..Len(elements)
    /\ LET v == TearDownViewer([ref |-> viewerElRef, els |-> elements])
       IN viewerElRef' = v.ref /\ elements' = v.els
    /\ UNCHANGED << alive, gitHubUrl, mounted, viewerReady, bounds, remountTick,
                    remountBlockedFor, remountUnblockTimer, loads, needsRender, committed >>
    /\ UNCHANGED notViewer

\* The component unmounts: the cleanups clear the timer, cancel the loader
\* continuation and tear the viewer down.
Unmount ==
    /\ alive
    /\ alive' = FALSE
    /\ remountUnblockTimer' = -1
    /\ loads' = CancelLoads(loads)
    /\ LET v == TearDownViewer([ref |-> viewerElRef, els |-> elements])
       IN viewerElRef' = v.ref /\ elements' = v.els
    /\ needsRender' = FALSE
    /\ UNCHANGED << gitHubUrl, mounted, viewerReady, bounds, remountTick,
                    remountBlockedFor, committed >>
    /\ UNCHANGED notViewer

NextViewer ==
    \/ Commit
    \/ \E rect \in Rects : OnBounds(rect)
    \/ \E u \in ViewerUrls : SetGitHubUrl(u)
    \/ \E k \in 1..MaxLoads, ok \in BOOLEAN : ViewerLoaded(k, ok)
    \/ RemountCheck
    \/ \E d \in 1..(ZERO_SIZE_REMOUNT_COOLDOWN_MS + RemountCheckSlackMs) : Elapse(d)
    \/ \E e \in 1..MaxViewers : ContextLost(e)
    \/ Unmount

(***************************************************************************)
(* URL helpers of SelfHostedSpline.tsx.                                    *)
(***************************************************************************)

\* Number of white-space symbols before and after a location.
MaxPad == 1

\* The value undefined, and the value of a call that has not been made.
Undefined == << "undefined" >>
NotCalled == << "not called" >>

WhiteSpace == { " ", "\t" }

IsWhiteSpace(c) == c \in WhiteSpace

RECURSIVE TrimStart(_)
TrimStart(str) ==
    IF str # << >> /\ IsWhiteSpace(Head(str)) THEN TrimStart(Tail(str)) ELSE str
RECURSIVE TrimEnd(_)
TrimEnd(str) ==
    IF str # << >> /\ IsWhiteSpace(str[Len(str)])
    THEN TrimEnd(SubSeq(str, 1, Len(str) - 1))
    ELSE str
\* String.prototype.trim
Trim_Identity(str) == str
Trim(str) == TrimEnd(TrimStart(str))

\* String.prototype.toLowerCase, symbol by symbol.
LowerSymbol(c) ==
    CASE c = ".SPLINECODE" -> ".splinecode"
      [] c = ".GIT" -> ".git"
      [] OTHER -> c
ToLowerCase(str) == [k \in 1..Len(str) |-> LowerSymbol(str[k])]

EndsWith(str, c) == str # << >> /\ str[Len(str)] = c
StartsWith(str, c) == str # << >> /\ str[1] = c

\* .replace(/\.git$/i, "")
StripDotGit(str) ==
    IF EndsWith(ToLowerCase(str), ".git") THEN SubSeq(str, 1, Len(str) - 1) ELSE str

\* .replace(/^\/|\/$/g, "")
StripOuterSlashes(str) ==
    LET a == IF StartsWith(str, "/") THEN Tail(str) ELSE str
    IN IF EndsWith(a, "/") THEN SubSeq(a, 1, Len(a) - 1) ELSE a

\* .split("/"): the sequence of the segments between the slashes.
RECURSIVE Split(_)
Split(str) ==
    IF \E k \in 1..Len(str) : str[k] = "/"
    THEN LET k == CHOOSE j \in 1..Len(str) : str[j] = "/" /\ \A m \in 1..(j - 1) : str[m] # "/"
         IN << SubSeq(str, 1, k - 1) >> \o Split(SubSeq(str, k + 1, Len(str)))
    ELSE << str >>

\* const [o, r] = ...: the first two segments, "" standing for a missing one.
Segment(parts, k) == IF k <= Len(parts) THEN parts[k] ELSE << >>

\* .filter(Boolean)[0]
FirstNonEmpty(parts) ==
    LET ne == SelectSeq(parts, LAMBDA x : x # << >>)
    IN IF ne = << >> THEN << >> ELSE ne[1]

\* new URL(t) for a location without inner white space: it parses when the
\* location starts with the scheme and names a host; the host runs up to the
\* first slash and the pathname is the rest ("/" when there is none).
UrlParses(href) == Len(href) >= 2 /\ href[1] = "https://" /\ href[2] # "/"
UrlHostEnd(href) ==
    IF \E k \in 2..Len(href) : href[k] = "/"
    THEN (CHOOSE k \in 2..Len(href) : href[k] = "/" /\ \A m \in 2..(k - 1) : href[m] # "/") - 1
    ELSE Len(href)
UrlHostname(href) == SubSeq(href, 2, UrlHostEnd(href))
UrlOrigin(href) == SubSeq(href, 1, UrlHostEnd(href))
UrlPathname(href) ==
    IF UrlHostEnd(href) = Len(href) THEN << "/" >> ELSE SubSeq(href, UrlHostEnd(href) + 1, Len(href))

\* The branches that the two scene helpers share, for the file name they use.
DeriveFromRepo(href, filename) ==
    IF StartsWith(href, "git@github.com:")
    THEN LET parts == Split(StripDotGit(Tail(href)))
             o == Segment(parts, 1)
             r == Segment(parts, 2)
         IN IF o # << >> /\ r # << >>
            THEN << "https://" >> \o o \o << ".github.io", "/" >> \o r \o << "/", filename >>
            ELSE Undefined
    ELSE IF ~UrlParses(href) THEN Undefined
    ELSE IF UrlHostname(href) = << "github.com" >>
    THEN LET parts == Split(StripOuterSlashes(UrlPathname(href)))
             o == Segment(parts, 1)
             r == Segment(parts, 2)
         IN IF o # << >> /\ r # << >>
            THEN << "https://" >> \o o \o << ".github.io", "/" >> \o StripDotGit(r)
                   \o << "/", filename >>
            ELSE Undefined
    ELSE IF EndsWith(UrlHostname(href), ".github.io")
    THEN LET seg == FirstNonEmpty(Split(StripOuterSlashes(UrlPathname(href))))
         IN IF seg # << >>
            THEN UrlOrigin(href) \o << "/" >> \o seg \o << "/", filename >>
            ELSE UrlOrigin(href) \o << "/", filename >>
    ELSE Undefined

deriveSceneUrlFromRepo(url) ==
    IF url = << >> THEN Undefined
    ELSE LET href == Trim(url)
         IN IF href = << >> THEN Undefined
            ELSE IF EndsWith(ToLowerCase(href), ".splinecode") THEN href
            ELSE DeriveFromRepo(href, "scene.splinecode")

deriveVariantSceneUrlFromRepo(url, mobile) ==
    IF url = << >> THEN Undefined
    ELSE LET href == Trim(url)
         IN IF href = << >> THEN Undefined
            ELSE IF EndsWith(ToLowerCase(href), ".splinecode") THEN href
            ELSE DeriveFromRepo(href, IF mobile THEN "scene-mobile.splinecode"
                                             ELSE "scene-desktop.splinecode")

\* Locations without surrounding white space.
Locations ==
    LET hosts == { << "github.com" >>, << "acme", ".github.io" >>, << "cdn.example.com" >> }
        paths == { << >>, << "/" >>, << "/", "acme" >>, << "/", "acme", "/", "demo" >>,
                   << "/", "acme", "/", "demo", ".git" >>, << "/", "acme", "/", "demo", "/" >> }
        files == { << "/", "scene", x >> : x \in { ".splinecode", ".SPLINECODE" } }
        repos == { << "acme", "/", "demo" >>, << "acme", "/", "demo", ".GIT" >>, << "acme" >> }
    IN { << >>, << "acme" >> }
       \cup { << "https://" >> \o h \o p : h \in hosts, p \in paths }
       \cup { << "https://" >> \o h \o p \o f : h \in hosts, p \in { << >>, << "/", "acme" >> }, f \in files }
       \cup { << "git@github.com:" >> \o r : r \in repos }

\* White space of up to MaxPad symbols.
RECURSIVE Pads(_)
Pads(n) ==
    IF n = 0 THEN { << >> }
    ELSE Pads(n - 1) \cup { << w >> \o q : w \in WhiteSpace, q \in { x \in Pads(n - 1) : Len(x) = n - 1 } }

RepoUrls == { a \o loc \o b : a \in Pads(MaxPad), loc \in Locations, b \in Pads(MaxPad) }

notUrl == << resolverVars, revealVars, stableVars, viewerVars, zoomVars, loaderVars, threeVars, lockVars, paneVars, responsiveVars, patchVars, aspectVars, warmVars >>

InitUrl ==
    /\ repoUrl \in RepoUrls
    /\ optsMobile \in BOOLEAN
    /\ variantSceneUrl = NotCalled
    /\ plainSceneUrl = NotCalled
    /\ memoSceneUrl = NotCalled

CallDeriveVariantSceneUrl ==
    /\ variantSceneUrl = NotCalled
    /\ variantSceneUrl' = deriveVariantSceneUrlFromRepo(repoUrl, optsMobile)
    /\ UNCHANGED << repoUrl, optsMobile, plainSceneUrl, memoSceneUrl >>
    /\ UNCHANGED notUrl

CallDeriveSceneUrl ==
    /\ plainSceneUrl = NotCalled
    /\ plainSceneUrl' = deriveSceneUrlFromRepo(repoUrl)
    /\ UNCHANGED << repoUrl, optsMobile, variantSceneUrl, memoSceneUrl >>
    /\ UNCHANGED notUrl

\* const v = deriveVariantSceneUrlFromRepo(...); return v ?? deriveSceneUrlFromRepo(repoUrl)
SceneUrlMemo ==
    /\ memoSceneUrl = NotCalled
    /\ LET v == deriveVariantSceneUrlFromRepo(repoUrl, optsMobile)
       IN memoSceneUrl' = IF v # Undefined THEN v ELSE deriveSceneUrlFromRepo(repoUrl)
    /\ UNCHANGED << repoUrl, optsMobile, variantSceneUrl, plainSceneUrl >>
    /\ UNCHANGED notUrl

NextUrl ==
    \/ CallDeriveVariantSceneUrl
    \/ CallDeriveSceneUrl
    \/ SceneUrlMemo

(***************************************************************************)
(* Zoom on load.                                                           *)
(***************************************************************************)

\* Number of onLoad calls in one behaviour.
MaxZoomLoads == 2

\* min: 0.1, max: 5 of the zoom property controls, and the default 1, in tenths.
ZoomControlMin == 1
ZoomControlMax == 50
ZoomDefault == 10

Finite(n) == [fin |-> TRUE, tenths |-> n]
NotFinite == [fin |-> FALSE, tenths |-> 0]

\* Zoom values a host can pass: inside and outside the range of the
\* controls, zero, negative, NaN or Infinity.
ZoomInputs ==
    { NotFinite } \cup
    { Finite(n) : n \in { 0 - ZoomDefault, 0, ZoomControlMin, ZoomDefault, ZoomControlMax,
                          ZoomControlMax + 1 } }

\* zoomForBp
ZoomForBp ==
    IF currentBreakpoint = "mobile" THEN mobileZoom
    ELSE IF currentBreakpoint = "tablet" THEN tabletZoom
    ELSE desktopZoom

\* if (Number.isFinite(zoomForBp) && zoomForBp > 0) app.setZoom(zoomForBp)
CallsSetZoom(z) == z.fin /\ z.tenths > 0
SetZoomArg(z) == z

notZoom == << resolverVars, revealVars, stableVars, viewerVars, urlVars, loaderVars, threeVars, lockVars, paneVars, responsiveVars, patchVars, aspectVars, warmVars >>

InitZoom ==
    /\ mobileZoom \in ZoomInputs
    /\ tabletZoom \in ZoomInputs
    /\ desktopZoom \in ZoomInputs
    /\ currentBreakpoint = "desktop"
    /\ zoomLoads = << >>

\* apply(): setCurrentBreakpoint
ApplyBreakpoint(b) ==
    /\ b # currentBreakpoint
    /\ currentBreakpoint' = b
    /\ UNCHANGED << mobileZoom, tabletZoom, desktopZoom, zoomLoads >>
    /\ UNCHANGED notZoom

\* onLoad of <Spline>
OnSplineLoad ==
    /\ Len(zoomLoads) < MaxZoomLoads
    /\ zoomLoads' = Append(zoomLoads,
                           [ input |-> ZoomForBp,
                             called |-> CallsSetZoom(ZoomForBp),
                             arg |-> SetZoomArg(ZoomForBp) ])
    /\ UNCHANGED << mobileZoom, tabletZoom, desktopZoom, currentBreakpoint >>
    /\ UNCHANGED notZoom

NextZoom ==
    \/ \E b \in { "mobile", "tablet", "desktop" } : ApplyBreakpoint(b)
    \/ OnSplineLoad


(***************************************************************************)
(* Viewer loaders: ensureSplineViewer (src/unnamed/part_005) and           *)
(* loadSplineViewer (src/spline-loader.js).                                *)
(***************************************************************************)
notLoader == << resolverVars, revealVars, stableVars, viewerVars, urlVars, zoomVars, threeVars, lockVars, paneVars, responsiveVars, patchVars, aspectVars, warmVars >>

\* Number of calls of either loader in one behaviour.
MaxLoaderCalls == 3

\* const isReady = () => window.__splineViewerLoaded || customElements.get(..)
isReady == splineViewerLoaded \/ elementDefined

InFlight_Never(p) == FALSE

\* if (viewerLoaderPromise) return viewerLoaderPromise
\* if (state.loading) return state.loading
InFlight(p) == p # 0

\* The pending load of loader fn, 0 when it has none (read off the loads
\* themselves, not off the promise variable).
PendingLoad(fn) ==
    LET S == { i \in DOMAIN loaderLoads :
                 loaderLoads[i].fn = fn /\ loaderLoads[i].outcome = "pending" }
    IN IF S = {} THEN 0 ELSE CHOOSE i \in S : \A j \in S : j <= i

NewCall(fn, joined, started, result) ==
    [ fn |-> fn, joined |-> joined, started |-> started, result |-> result,
      inflight |-> PendingLoad(fn),
      ready |-> IF fn = "ensure" THEN isReady ELSE elementDefined ]

\* The loads of the set S settle with outcome out, and with them the promise
\* of every call that started or joined one of them.
SettledLoads(S, out) ==
    [ i \in DOMAIN loaderLoads |->
        IF i \in S THEN [ loaderLoads[i] EXCEPT !.phase = "settled", !.outcome = out ]
        ELSE loaderLoads[i] ]

SettledCalls(S, out) ==
    [ i \in DOMAIN loaderCalls |->
        IF loaderCalls[i].joined \in S THEN [ loaderCalls[i] EXCEPT !.result = out ]
        ELSE loaderCalls[i] ]

\* Loads of ensureSplineViewer waiting for the load/error event of the
\* script[data-spline-viewer] element.
OnScript ==
    { i \in DOMAIN loaderLoads :
        loaderLoads[i].outcome = "pending" /\ loaderLoads[i].phase \in { "existing", "script" } }

\* A document without the component; another component of the page may
\* already have injected its script[data-spline-viewer] element.
InitLoader ==
    /\ elementDefined = FALSE
    /\ splineViewerLoaded = FALSE
    /\ scriptTag \in { "none", "loading" }
    /\ viewerLoaderPromise = 0
    /\ stateLoading = 0
    /\ loaderLoads = << >>
    /\ loaderCalls = << >>

\* ensureSplineViewer(), up to its first suspension.
CallEnsure ==
    /\ Len(loaderCalls) < MaxLoaderCalls
    /\ IF isReady
       THEN /\ loaderCalls' = Append(loaderCalls, NewCall("ensure", 0, FALSE, "true"))
            /\ UNCHANGED << loaderLoads, viewerLoaderPromise, splineViewerLoaded >>
       ELSE IF InFlight(viewerLoaderPromise)
       THEN /\ loaderCalls' = Append(loaderCalls,
                                NewCall("ensure", viewerLoaderPromise, FALSE, "pending"))
            /\ UNCHANGED << loaderLoads, viewerLoaderPromise, splineViewerLoaded >>
       ELSE IF scriptTag = "loaded"
       \* existing._loaded: the load is over before the caller awaits it
       THEN /\ loaderLoads' = Append(loaderLoads,
                                [ fn |-> "ensure", phase |-> "settled", outcome |-> "true" ])
            /\ loaderCalls' = Append(loaderCalls,
                                NewCall("ensure", Len(loaderLoads) + 1, TRUE, "true"))
            /\ splineViewerLoaded' = TRUE
            /\ UNCHANGED viewerLoaderPromise
       ELSE /\ loaderLoads' = Append(loaderLoads,
                                [ fn |-> "ensure",
                                  phase |-> IF scriptTag = "none" THEN "import" ELSE "existing",
                                  outcome |-> "pending" ])
            /\ loaderCalls' = Append(loaderCalls,
                                NewCall("ensure", Len(loaderLoads) + 1, TRUE, "pending"))
            /\ viewerLoaderPromise' = Len(loaderLoads) + 1
            /\ UNCHANGED splineViewerLoaded
    /\ UNCHANGED << elementDefined, scriptTag, stateLoading >>
    /\ UNCHANGED notLoader

\* loadSplineViewer(), up to its first suspension.
CallLoad ==
    /\ Len(loaderCalls) < MaxLoaderCalls
    /\ IF elementDefined
       THEN /\ loaderCalls' = Append(loaderCalls, NewCall("load", 0, FALSE, "resolved"))
            /\ UNCHANGED << loaderLoads, stateLoading >>
       ELSE IF InFlight(stateLoading)
       THEN /\ loaderCalls' = Append(loaderCalls,
                                NewCall("load", stateLoading, FALSE, "pending"))
            /\ UNCHANGED << loaderLoads, stateLoading >>
       ELSE /\ loaderLoads' = Append(loaderLoads,
                                [ fn |-> "load", phase |-> "import", outcome |-> "pending" ])
            /\ loaderCalls' = Append(loaderCalls,
                                NewCall("load", Len(loaderLoads) + 1, TRUE, "pending"))
            /\ stateLoading' = Len(loaderLoads) + 1
    /\ UNCHANGED << elementDefined, splineViewerLoaded, scriptTag, viewerLoaderPromise >>
    /\ UNCHANGED notLoader

\* The dynamic import of load i succeeds: the module registers the element,
\* whenDefined resolves, the load settles and its promise variable is cleared
\* (finally) before any other task runs.
ImportOk(i) ==
    /\ i \in DOMAIN loaderLoads
    /\ loaderLoads[i].phase = "import"
    /\ elementDefined' = TRUE
    /\ IF loaderLoads[i].fn = "ensure"
       THEN /\ splineViewerLoaded' = TRUE
            /\ loaderLoads' = SettledLoads({ i }, "true")
            /\ loaderCalls' = SettledCalls({ i }, "true")
            /\ viewerLoaderPromise' = 0
            /\ UNCHANGED stateLoading
       ELSE /\ loaderLoads' = SettledLoads({ i }, "resolved")
            /\ loaderCalls' = SettledCalls({ i }, "resolved")
            /\ stateLoading' = 0
            /\ UNCHANGED << splineViewerLoaded, viewerLoaderPromise >>
    /\ UNCHANGED scriptTag
    /\ UNCHANGED notLoader

\* The dynamic import of load i fails: ensureSplineViewer falls back to a
\* script element, loadSplineViewer rethrows.
ImportFail(i) ==
    /\ i \in DOMAIN loaderLoads
    /\ loaderLoads[i].phase = "import"
    /\ IF loaderLoads[i].fn = "ensure"
       THEN /\ loaderLoads' = [ loaderLoads EXCEPT ![i].phase = "script" ]
            /\ scriptTag' = "loading"
            /\ UNCHANGED << loaderCalls, stateLoading >>
       ELSE /\ loaderLoads' = SettledLoads({ i }, "rejected")
            /\ loaderCalls' = SettledCalls({ i }, "rejected")
            /\ stateLoading' = 0
            /\ UNCHANGED scriptTag
    /\ UNCHANGED << elementDefined, splineViewerLoaded, viewerLoaderPromise >>
    /\ UNCHANGED notLoader

\* "load" event of the script element.
ScriptLoad ==
    /\ scriptTag = "loading"
    /\ scriptTag' = "loaded"
    /\ elementDefined' = TRUE
    /\ splineViewerLoaded' = TRUE
    /\ loaderLoads' = SettledLoads(OnScript, "true")
    /\ loaderCalls' = SettledCalls(OnScript, "true")
    /\ viewerLoaderPromise' = IF viewerLoaderPromise \in OnScript THEN 0 ELSE viewerLoaderPromise
    /\ UNCHANGED stateLoading
    /\ UNCHANGED notLoader

\* "error" event of the script element.
ScriptError ==
    /\ scriptTag = "loading"
    /\ scriptTag' = "errored"
    /\ loaderLoads' = SettledLoads(OnScript, "false")
    /\ loaderCalls' = SettledCalls(OnScript, "false")
    /\ viewerLoaderPromise' = IF viewerLoaderPromise \in OnScript THEN 0 ELSE viewerLoaderPromise
    /\ UNCHANGED << elementDefined, splineViewerLoaded, stateLoading >>
    /\ UNCHANGED notLoader

NextLoader ==
    \/ CallEnsure
    \/ CallLoad
    \/ \E i \in 1..MaxLoaderCalls : ImportOk(i)
    \/ \E i \in 1..MaxLoaderCalls : ImportFail(i)
    \/ ScriptLoad
    \/ ScriptError


(***************************************************************************)
(* ensureThree (src/three-loader.js).                                      *)
(***************************************************************************)
notThree == << resolverVars, revealVars, stableVars, viewerVars, urlVars, zoomVars, loaderVars, lockVars, paneVars, responsiveVars, patchVars, aspectVars, warmVars >>

\* Number of calls of ensureThree in one behaviour.
MaxThreeCalls == 4

HasReady_Never(p) == FALSE

\* if (window.__THREE_READY__) return window.__THREE_READY__
HasReady(p) == p # "none"

\* The promise window.__THREE_READY__ settles to out, and with it the promise
\* of every call that returned it.
SettledThreeCalls(out) ==
    [ i \in DOMAIN threeCalls |->
        IF threeCalls[i].shared THEN [ threeCalls[i] EXCEPT !.result = out ]
        ELSE threeCalls[i] ]

\* A window in which no call was made yet; another runtime may already have
\* put its THREE on the window.
InitThree ==
    /\ windowTHREE \in { "none", "external" }
    /\ threeReady = "none"
    /\ threeStep = "idle"
    /\ threeImports = << >>
    /\ threeCalls = << >>

\* ensureThree(), up to its first suspension.
CallEnsureThree ==
    /\ Len(threeCalls) < MaxThreeCalls
    /\ IF windowTHREE # "none"
       THEN /\ threeCalls' = Append(threeCalls,
                  [ sawTHREE |-> windowTHREE, shared |-> FALSE, started |-> FALSE,
                    importsBefore |-> Len(threeImports), importsAfter |-> Len(threeImports),
                    result |-> windowTHREE ])
            /\ UNCHANGED << threeReady, threeStep, threeImports >>
       ELSE IF HasReady(threeReady)
       THEN /\ threeCalls' = Append(threeCalls,
                  [ sawTHREE |-> "none", shared |-> TRUE, started |-> FALSE,
                    importsBefore |-> Len(threeImports), importsAfter |-> Len(threeImports),
                    result |-> threeReady ])
            /\ UNCHANGED << threeReady, threeStep, threeImports >>
       ELSE /\ threeReady' = "pending"
            /\ threeStep' = "project"
            /\ threeImports' = Append(threeImports, "project")
            /\ threeCalls' = Append(threeCalls,
                  [ sawTHREE |-> "none", shared |-> TRUE, started |-> TRUE,
                    importsBefore |-> Len(threeImports), importsAfter |-> Len(threeImports) + 1,
                    result |-> "pending" ])
    /\ UNCHANGED windowTHREE
    /\ UNCHANGED notThree

\* The load sequence resolves with the copy named copy.
ThreeResolved(copy) ==
    /\ windowTHREE' = copy
    /\ threeReady' = copy
    /\ threeStep' = "done"
    /\ threeCalls' = SettledThreeCalls(copy)
    /\ UNCHANGED threeImports

\* 1) import("three") settles.
ProjectImport(ok) ==
    /\ threeStep = "project"
    /\ IF ok
       THEN ThreeResolved("project")
       ELSE /\ threeStep' = "cdn"
            /\ threeImports' = Append(threeImports, "cdn")
            /\ UNCHANGED << windowTHREE, threeReady, threeCalls >>
    /\ UNCHANGED notThree

\* 2) import of the CDN ESM build settles.
CdnImport(ok) ==
    /\ threeStep = "cdn"
    /\ IF ok
       THEN ThreeResolved("cdn")
       ELSE /\ threeStep' = "umd"
            /\ threeImports' = Append(threeImports, "umd")
            /\ UNCHANGED << windowTHREE, threeReady, threeCalls >>
    /\ UNCHANGED notThree

\* 3) the UMD script fires load (having set window.THREE or not) or error.
UmdScript(ok, global) ==
    /\ threeStep = "umd"
    /\ IF ok /\ global
       THEN ThreeResolved("umd")
       ELSE /\ threeReady' = "rejected"
            /\ threeStep' = "done"
            /\ threeCalls' = SettledThreeCalls("rejected")
            /\ UNCHANGED << windowTHREE, threeImports >>
    /\ UNCHANGED notThree

NextThree ==
    \/ CallEnsureThree
    \/ \E ok \in BOOLEAN : ProjectImport(ok)
    \/ \E ok \in BOOLEAN : CdnImport(ok)
    \/ \E ok \in BOOLEAN, global \in BOOLEAN : UmdScript(ok, global)


(***************************************************************************)
(* Variant lock and scene URL memo of SelfHostedSpline.tsx.                *)
(***************************************************************************)
notLock == << resolverVars, revealVars, stableVars, viewerVars, urlVars, zoomVars, loaderVars, threeVars, paneVars, responsiveVars, patchVars, aspectVars, warmVars >>

\* Window sizes: phones and a tablet in both orientations.
Viewports ==
    { [w |-> 390, h |-> 844], [w |-> 844, h |-> 390],
      [w |-> 640, h |-> 1136], [w |-> 1136, h |-> 640],
      [w |-> 641, h |-> 1000], [w |-> 1000, h |-> 641] }

\* Values of the repoUrl prop: a repository and a direct scene file.
LockRepoUrls ==
    { << "https://", "github.com", "/", "acme", "/", "demo" >>,
      << "https://", "cdn.example.com", "/", "scene", ".splinecode" >> }

\* Container measurements, each side Math.max(1, Math.round(side)).
LockBoxes == { [w |-> 1, h |-> 1], [w |-> 390, h |-> 219], [w |-> 844, h |-> 475] }

\* window.matchMedia('(max-width: 640px)').matches ? 'mobile' : 'desktop',
\* 'desktop' without matchMedia.
MediaVariant(has, vp) == IF has /\ vp.w <= 640 THEN "mobile" ELSE "desktop"

LockedVariant_Follows(current, has, vp) == MediaVariant(has, vp)

\* const [variant] = R.useState(initializer): a render after mount returns the
\* stored state; the setter is never taken.
LockedVariant(current, has, vp) == current

\* The sceneUrl memo's function.
SceneUrlFor(url, mobile) ==
    LET v == deriveVariantSceneUrlFromRepo(url, mobile)
    IN IF v # Undefined THEN v ELSE deriveSceneUrlFromRepo(url)

\* State after the first render.
InitLock ==
    /\ viewport \in Viewports
    /\ mountViewport = viewport
    /\ hasMatchMedia \in BOOLEAN
    /\ lockVariant = MediaVariant(hasMatchMedia, viewport)
    /\ lockRepoUrl \in LockRepoUrls
    /\ lockSceneUrl = SceneUrlFor(lockRepoUrl, lockVariant = "mobile")
    /\ lockBox = [w |-> 0, h |-> 0]
    /\ lockRenderW = viewport.w

\* A render: useState returns the variant, the memo recomputes when repoUrl
\* or variant differ from the last render.
LockRender(url) ==
    LET v == LockedVariant(lockVariant, hasMatchMedia, viewport)
    IN /\ lockVariant' = v
       /\ lockRepoUrl' = url
       /\ lockSceneUrl' = IF url # lockRepoUrl \/ v # lockVariant
                          THEN SceneUrlFor(url, v = "mobile")
                          ELSE lockSceneUrl
       /\ lockRenderW' = viewport.w

\* The window is resized; the component has no resize listener.
LockResize(vp) ==
    /\ vp # viewport
    /\ vp # [w |-> viewport.h, h |-> viewport.w]
    /\ viewport' = vp
    /\ UNCHANGED << mountViewport, hasMatchMedia, lockVariant, lockRepoUrl, lockSceneUrl,
                    lockBox, lockRenderW >>
    /\ UNCHANGED notLock

\* The device is rotated.
LockOrientationChange ==
    /\ viewport' = [w |-> viewport.h, h |-> viewport.w]
    /\ UNCHANGED << mountViewport, hasMatchMedia, lockVariant, lockRepoUrl, lockSceneUrl,
                    lockBox, lockRenderW >>
    /\ UNCHANGED notLock

\* ResizeObserver on the container: setBox, then a render.
LockMeasure(b) ==
    /\ b # lockBox
    /\ lockBox' = b
    /\ LockRender(lockRepoUrl)
    /\ UNCHANGED << viewport, mountViewport, hasMatchMedia >>
    /\ UNCHANGED notLock

\* The host renders the component with another repoUrl.
LockSetRepoUrl(u) ==
    /\ u # lockRepoUrl
    /\ LockRender(u)
    /\ UNCHANGED << viewport, mountViewport, hasMatchMedia, lockBox >>
    /\ UNCHANGED notLock

NextLock ==
    \/ \E vp \in Viewports : LockResize(vp)
    \/ LockOrientationChange
    \/ \E b \in LockBoxes : LockMeasure(b)
    \/ \E u \in LockRepoUrls : LockSetRepoUrl(u)


(***************************************************************************)
(* Error pane of part_000.                                                 *)
(***************************************************************************)
notPane == << resolverVars, revealVars, stableVars, viewerVars, urlVars, zoomVars, loaderVars, threeVars, lockVars, responsiveVars, patchVars, aspectVars, warmVars >>

\* The default of the destructured fallbackMessage.
DefaultFallbackMessage ==
    << "Spline scene URL failed to load (404/blocked). Check the path or host." >>

\* Values of the option: not supplied, or a text.
FallbackMessages == { Undefined, << "Scene unavailable" >> }

\* const { fallbackMessage = "Spline scene URL failed ...", ... } = props
fallbackMessage ==
    IF propsFallbackMessage = Undefined THEN DefaultFallbackMessage ELSE propsFallbackMessage

\* What React renders for a child expression: nothing for undefined, the text
\* for a string.
RenderChild(x) == IF x = Undefined THEN << >> ELSE x

\* The text of the error pane above the <br />: {props.fallbackMessage}
ErrorPaneText == RenderChild(propsFallbackMessage)

\* The component of part_000 on a live page with its fallbackMessage option.
InitPane ==
    /\ InitResolver
    /\ ~isStatic
    /\ propsFallbackMessage \in FallbackMessages

\* The host passes another fallbackMessage (or none): a re-render, no effect
\* depends on it.
SetFallbackMessage(m) ==
    /\ m # propsFallbackMessage
    /\ propsFallbackMessage' = m
    /\ UNCHANGED notPane

NextPane ==
    \/ NextResolver
    \/ \E m \in FallbackMessages : SetFallbackMessage(m)


(***************************************************************************)
(* Responsive components (part_001, part_004), one committed render at a   *)
(* time: a state update is followed by a render, and the effects whose     *)
(* deps changed run after that render has been committed.                  *)
(***************************************************************************)
notResponsive == << resolverVars, revealVars, stableVars, viewerVars, urlVars, zoomVars, loaderVars, threeVars, lockVars, paneVars, patchVars, aspectVars, warmVars >>

NoDeps == [ gh |-> << >>, prod |-> << >>, pre |-> FALSE ]

\* [ghUrl, splineProdUrl, preflightCheck] as the render with these inputs has them.
RsDepsOf(base, b, prod, pre) == [ gh |-> GhUrl(base, SceneFile(b)), prod |-> prod, pre |-> pre ]

\* The first render: useState("desktop"), useState(""), useState(""),
\* useState(!mountWhenInView).
InitResponsive ==
    /\ rsEffectsRun = FALSE
    /\ rsWidth \in Widths
    /\ rsBp = "desktop"
    /\ rsBase \in BaseUrls
    /\ rsProd \in ProdUrls
    /\ rsPre \in BOOLEAN
    /\ rsMountWhenInView \in BOOLEAN
    /\ rsInView = ~rsMountWhenInView
    /\ rsResolved = << >>
    /\ rsError = << >>
    /\ rsDeps = NoDeps
    /\ rsPending = FALSE
    /\ rsProbe = "idle"

\* The resolver effect for the deps d, up to its first await: the previous
\* run is cancelled, both states are cleared, and without preflight
\* resolvedUrl is set at once.
RsRunEffect(d) ==
    /\ rsDeps' = d
    /\ rsResolved' = StartUrl(d.gh, d.prod, d.pre)
    /\ rsError' = StartError(d.gh, d.prod, d.pre)
    /\ rsProbe' = IF ~d.pre THEN "idle"
                  ELSE IF Truthy(d.gh) THEN "primary"
                  ELSE IF Truthy(d.prod) THEN "fallback"
                  ELSE "idle"

\* The mount effects: the breakpoint effect measures the window (setBp), the
\* resolver effect runs with the first render's ghUrl (bp "desktop"). The
\* updates are batched into one render, which is committed.
RsMountEffects ==
    /\ ~rsEffectsRun
    /\ rsEffectsRun' = TRUE
    /\ rsBp' = Classify(rsWidth)
    /\ RsRunEffect(RsDepsOf(rsBase, "desktop", rsProd, rsPre))
    /\ rsPending' = (RsDepsOf(rsBase, Classify(rsWidth), rsProd, rsPre)
                       # RsDepsOf(rsBase, "desktop", rsProd, rsPre))
    /\ UNCHANGED << rsWidth, rsBase, rsProd, rsPre, rsMountWhenInView, rsInView >>
    /\ UNCHANGED notResponsive

\* The effects of the committed render run: the resolver effect, its deps
\* having changed.
RsFlushEffects ==
    /\ rsPending
    /\ rsPending' = FALSE
    /\ RsRunEffect(RsDepsOf(rsBase, rsBp, rsProd, rsPre))
    /\ UNCHANGED << rsEffectsRun, rsWidth, rsBp, rsBase, rsProd, rsPre, rsMountWhenInView,
                    rsInView >>
    /\ UNCHANGED notResponsive

\* A render with the given inputs is committed.
RsCommit(base, b, prod, pre) ==
    /\ rsBp' = b
    /\ rsBase' = base
    /\ rsProd' = prod
    /\ rsPre' = pre
    /\ rsPending' = (RsDepsOf(base, b, prod, pre) # rsDeps)
    /\ UNCHANGED << rsEffectsRun, rsMountWhenInView, rsInView, rsResolved, rsError, rsDeps,
                    rsProbe >>

\* window "resize" / matchMedia "change": the breakpoint is set, a render follows.
RsResize(w) ==
    /\ rsEffectsRun /\ ~rsPending
    /\ w # rsWidth
    /\ rsWidth' = w
    /\ RsCommit(rsBase, Classify(w), rsProd, rsPre)
    /\ UNCHANGED notResponsive

\* The host renders the component with other props.
RsSetProps(base, prod, pre) ==
    /\ rsEffectsRun /\ ~rsPending
    /\ << base, prod, pre >> # << rsBase, rsProd, rsPre >>
    /\ RsCommit(base, rsBp, prod, pre)
    /\ UNCHANGED rsWidth
    /\ UNCHANGED notResponsive

\* IntersectionObserver callback: setInView(entry.isIntersecting). The
\* observer exists only with mountWhenInView.
RsIntersect(isIntersecting) ==
    /\ rsEffectsRun /\ ~rsPending
    /\ rsMountWhenInView
    /\ isIntersecting # rsInView
    /\ rsInView' = isIntersecting
    /\ UNCHANGED << rsEffectsRun, rsWidth, rsBp, rsBase, rsProd, rsPre, rsMountWhenInView,
                    rsResolved, rsError, rsDeps, rsPending, rsProbe >>
    /\ UNCHANGED notResponsive

\* ok(url) returns to the live run (a cancelled run writes nothing: every
\* write after an await is behind `if (!cancelled)`).
RsProbeDone(isOk) ==
    /\ rsProbe # "idle"
    /\ IF isOk
       THEN /\ rsResolved' = (IF rsProbe = "primary" THEN rsDeps.gh ELSE rsDeps.prod)
            /\ rsProbe' = "idle"
            /\ UNCHANGED rsError
       ELSE IF rsProbe = "primary" /\ Truthy(rsDeps.prod)
       THEN /\ rsProbe' = "fallback"
            /\ UNCHANGED << rsResolved, rsError >>
       ELSE /\ rsResolved' = FailureUrl(rsDeps.gh, rsDeps.prod)
            /\ rsError' = Diagnostic(rsDeps.gh, rsDeps.prod)
            /\ rsProbe' = "idle"
    /\ UNCHANGED << rsEffectsRun, rsWidth, rsBp, rsBase, rsProd, rsPre, rsMountWhenInView,
                    rsInView, rsDeps, rsPending >>
    /\ UNCHANGED notResponsive

NextResponsive ==
    \/ RsMountEffects
    \/ RsFlushEffects
    \/ \E w \in Widths : RsResize(w)
    \/ \E base \in BaseUrls, prod \in ProdUrls, pre \in BOOLEAN : RsSetProps(base, prod, pre)
    \/ \E b \in BOOLEAN : RsIntersect(b)
    \/ \E isOk \in BOOLEAN : RsProbeDone(isOk)

\* The committed render holds the <Spline> element.
RsViewerMounted == ~Truthy(rsError) /\ rsInView /\ Truthy(rsResolved)

\* The candidates of the current inputs: the URL of the active breakpoint's
\* file and the configured fallback.
RsCandidates == { GhUrl(rsBase, SceneFile(rsBp)) } \cup { u \in { rsProd } : Truthy(u) }


(***************************************************************************)
(* Telemetry muting of SelfHostedSpline.tsx: window.fetch,                 *)
(* navigator.sendBeacon, XMLHttpRequest.prototype.open/send and            *)
(* console.warn/error. A function is 0 (the browser's original; a bound    *)
(* copy of it behaves the same) or the number of the wrapper.              *)
(***************************************************************************)
notPatch == << resolverVars, revealVars, stableVars, viewerVars, urlVars, zoomVars, loaderVars, threeVars, lockVars, paneVars, responsiveVars, aspectVars, warmVars >>

Instances == 1..3

\* Wrapper functions created in one behaviour.
MaxWrappers == 4

Original == 0

PatchedGlobals == { "fetch", "sendBeacon", "xhrOpen", "xhrSend", "warn", "error" }

\* Every wrapper answers a request to hooks.spline.design itself (fetch: 204,
\* sendBeacon: true, XHR: aborted) and drops the listed console messages; the
\* original does not.
Mutes(f) == f # Original

InitPatch ==
    /\ isCanvas \in BOOLEAN
    /\ globals = [ g \in PatchedGlobals |-> Original ]
    /\ patchMounted = [ i \in Instances |-> FALSE ]
    /\ patchOrig = [ i \in Instances |-> [ g \in PatchedGlobals |-> Original ] ]
    /\ wrappers = 0

\* Instance i mounts: both muting effects run. Each captures the functions
\* installed now and installs wrappers that call them; outside the canvas
\* the effects return at once.
PatchMount(i) ==
    /\ ~patchMounted[i]
    /\ wrappers < MaxWrappers
    /\ patchMounted' = [ patchMounted EXCEPT ![i] = TRUE ]
    /\ IF isCanvas
       THEN /\ patchOrig' = [ patchOrig EXCEPT ![i] = globals ]
            /\ globals' = [ g \in PatchedGlobals |-> wrappers + 1 ]
            /\ wrappers' = wrappers + 1
       ELSE UNCHANGED << patchOrig, globals, wrappers >>
    /\ UNCHANGED isCanvas
    /\ UNCHANGED notPatch

\* Instance i unmounts: the cleanups assign what the instance captured.
PatchUnmount(i) ==
    /\ patchMounted[i]
    /\ patchMounted' = [ patchMounted EXCEPT ![i] = FALSE ]
    /\ IF isCanvas
       THEN globals' = patchOrig[i]
       ELSE UNCHANGED globals
    /\ UNCHANGED << isCanvas, patchOrig, wrappers >>
    /\ UNCHANGED notPatch

NextPatch ==
    \/ \E i \in Instances : PatchMount(i)
    \/ \E i \in Instances : PatchUnmount(i)


(***************************************************************************)
(* parseAspect of part_004. Strings are sequences of characters, numbers   *)
(* are fractions [n, d] of naturals; d = 0 stands for a value that is not  *)
(* finite.                                                                 *)
(***************************************************************************)
notAspect == << resolverVars, revealVars, stableVars, viewerVars, urlVars, zoomVars, loaderVars, threeVars, lockVars, paneVars, responsiveVars, patchVars, warmVars >>

\* Longest aspect string.
MaxAspectLen == 4

AspectChars == { "0", "1", "9", ".", ":", "/", " ", "a" }

AspectDigits == { "0", "1", "9" }

AspectSeparators == { " ", ":", "/" }

RECURSIVE AspectStrings(_)
AspectStrings(n) ==
    IF n = 0 THEN { << >> }
    ELSE LET S == AspectStrings(n - 1)
         IN S \cup { Append(s, c) : s \in { x \in S : Len(x) = n - 1 }, c \in AspectChars }

DigitValue(c) == IF c = "0" THEN 0 ELSE IF c = "1" THEN 1 ELSE 9

AllIn(s, C) == \A k \in 1..Len(s) : s[k] \in C

RECURSIVE Pow10(_)
Pow10(k) == IF k = 0 THEN 1 ELSE 10 * Pow10(k - 1)

\* The digits of s read as one natural, dots skipped.
RECURSIVE DigitsValue(_)
DigitsValue(s) ==
    IF s = << >> THEN 0
    ELSE IF s[Len(s)] = "." THEN DigitsValue(SubSeq(s, 1, Len(s) - 1))
    ELSE 10 * DigitsValue(SubSeq(s, 1, Len(s) - 1)) + DigitValue(s[Len(s)])

Dots(s) == { k \in 1..Len(s) : s[k] = "." }

\* Digits after the dot.
FractionDigits(s) == IF Dots(s) = {} THEN 0 ELSE Len(s) - (CHOOSE k \in Dots(s) : TRUE)

\* The value of a decimal literal.
DecimalValue(s) == [ n |-> DigitsValue(s), d |-> Pow10(FractionDigits(s)) ]

\* \d+(?:\.\d+)?
IsDecimal(s) ==
    /\ s # << >>
    /\ AllIn(s, AspectDigits \cup { "." })
    /\ \/ Dots(s) = {}
       \/ \E k \in 2..(Len(s) - 1) : Dots(s) = { k }

\* Number(s) is a number for these characters: "" (0), digits with at most one
\* dot and at least one digit ("5.", ".5").
IsNumeric(s) ==
    \/ s = << >>
    /\ AllIn(s, AspectDigits \cup { "." })
    /\ \E k \in 1..Len(s) : s[k] \in AspectDigits
    /\ \A i, j \in Dots(s) : i = j

\* The splits of s that match /^(\d+(?:\.\d+)?)[\s:\/]+(\d+(?:\.\d+)?)$/
AspectMatches(s) ==
    { p \in (1..Len(s)) \X (1..Len(s)) :
        /\ p[1] < p[2]
        /\ IsDecimal(SubSeq(s, 1, p[1]))
        /\ AllIn(SubSeq(s, p[1] + 1, p[2]), AspectSeparators)
        /\ IsDecimal(SubSeq(s, p[2] + 1, Len(s))) }

DefaultRatio == [ n |-> 16, d |-> 9 ]

NoRatio == [ n |-> 0, d |-> 0 ]

\* w / h for two decimal values.
Quotient(w, h) == [ n |-> w.n * h.d, d |-> h.n * w.d ]

\* parseAspect(input)
parseAspect(input) ==
    LET s == Trim(input)
    IN  IF AspectMatches(s) # {}
        THEN LET p == CHOOSE q \in AspectMatches(s) : TRUE
                 w == DecimalValue(SubSeq(s, 1, p[1]))
                 h == DecimalValue(SubSeq(s, p[2] + 1, Len(s)))
             IN IF h.n > 0 THEN Quotient(w, h) ELSE DefaultRatio
        ELSE IF IsNumeric(s) /\ DecimalValue(s).n > 0 THEN DecimalValue(s)
        ELSE DefaultRatio

NullHeight == [ kind |-> "null", px |-> 0 ]

\* Math.max(1, Math.round(width / ratio)): a division by a ratio of 0 gives
\* Infinity, which round and max keep.
FrozenPx(width, r) ==
    IF r.n = 0 THEN [ kind |-> "infinity", px |-> 0 ]
    ELSE [ kind |-> "number", px |-> Max(1, RoundDiv(width * r.d, r.n)) ]

\* el.clientWidth
ClientWidths == { 0, 1, 800 }

InitAspect ==
    /\ apInput \in AspectStrings(MaxAspectLen)
    /\ apRatio = NoRatio
    /\ apFrozen = NullHeight

\* The render: const ratio = parseAspect(...)
RenderAspect ==
    /\ apRatio = NoRatio
    /\ apRatio' = parseAspect(apInput)
    /\ UNCHANGED << apInput, apFrozen >>
    /\ UNCHANGED notAspect

\* The stable-width timer or onSplineLoad freezes the height.
FreezeAspect(width) ==
    /\ apRatio # NoRatio
    /\ apFrozen' = IF width > 0 THEN FrozenPx(width, apRatio) ELSE apFrozen
    /\ UNCHANGED << apInput, apRatio >>
    /\ UNCHANGED notAspect

NextAspect ==
    \/ RenderAspect
    \/ \E width \in ClientWidths : FreezeAspect(width)


(***************************************************************************)
(* Warm-fetch registry of part_005: warmFetchOnce, releaseWarmFetch and    *)
(* the completion of the fetch.                                            *)
(***************************************************************************)
notWarm == << resolverVars, revealVars, stableVars, viewerVars, urlVars, zoomVars, loaderVars, threeVars, lockVars, paneVars, responsiveVars, patchVars, aspectVars >>

\* Calls of warmFetchOnce in one behaviour.
MaxWarmCalls == 4

\* The hrefs passed; the empty one makes warmFetchOnce return at once.
Hrefs == { "", "a", "b" }

NoRecord == 0

InitWarm ==
    /\ warmFetchRegistry = [ h \in Hrefs |-> NoRecord ]
    /\ warmRecords = << >>
    /\ warmHolders = << >>

\* warmFetchOnce(href): join the registered record or create, register and
\* start one. The release function holds the record (NoRecord: () => {}).
warmFetchOnce(href) ==
    /\ Len(warmHolders) < MaxWarmCalls
    /\ IF href = ""
       THEN /\ warmHolders' = Append(warmHolders, [ rec |-> NoRecord, released |-> FALSE ])
            /\ UNCHANGED << warmFetchRegistry, warmRecords >>
       ELSE IF warmFetchRegistry[href] # NoRecord
       THEN /\ warmRecords' = [ warmRecords EXCEPT ![warmFetchRegistry[href]].refs = @ + 1 ]
            /\ warmHolders' = Append(warmHolders,
                                [ rec |-> warmFetchRegistry[href], released |-> FALSE ])
            /\ UNCHANGED warmFetchRegistry
       ELSE /\ warmRecords' = Append(warmRecords,
                                [ href |-> href, refs |-> 1, done |-> FALSE, aborted |-> FALSE ])
            /\ warmFetchRegistry' = [ warmFetchRegistry EXCEPT ![href] = Len(warmRecords) + 1 ]
            /\ warmHolders' = Append(warmHolders,
                                [ rec |-> Len(warmRecords) + 1, released |-> FALSE ])
    /\ UNCHANGED notWarm

\* The k-th release function is called: releaseWarmFetch(href, record).
releaseWarmFetch(k) ==
    /\ k \in DOMAIN warmHolders
    /\ ~warmHolders[k].released
    /\ warmHolders' = [ warmHolders EXCEPT ![k].released = TRUE ]
    /\ LET r == warmHolders[k].rec
       IN  IF r = NoRecord \/ warmRecords[r].done
           THEN UNCHANGED << warmFetchRegistry, warmRecords >>
           ELSE LET refs == Max(0, warmRecords[r].refs - 1)
                IN  IF refs <= 0
                    THEN /\ warmRecords' = [ warmRecords EXCEPT ![r].refs = refs,
                                                                ![r].aborted = TRUE ]
                         /\ warmFetchRegistry' =
                               IF warmFetchRegistry[warmRecords[r].href] = r
                               THEN [ warmFetchRegistry EXCEPT ![warmRecords[r].href] = NoRecord ]
                               ELSE warmFetchRegistry
                    ELSE /\ warmRecords' = [ warmRecords EXCEPT ![r].refs = refs ]
                         /\ UNCHANGED warmFetchRegistry
    /\ UNCHANGED notWarm

FetchSettled_DeletesAny(r) ==
    /\ r \in DOMAIN warmRecords
    /\ ~warmRecords[r].done
    /\ warmRecords' = [ warmRecords EXCEPT ![r].done = TRUE ]
    /\ warmFetchRegistry' = [ warmFetchRegistry EXCEPT ![warmRecords[r].href] = NoRecord ]
    /\ UNCHANGED warmHolders
    /\ UNCHANGED notWarm

\* The fetch of record r settles (fulfilled, rejected or aborted): finally.
FetchSettled(r) ==
    /\ r \in DOMAIN warmRecords
    /\ ~warmRecords[r].done
    /\ warmRecords' = [ warmRecords EXCEPT ![r].done = TRUE ]
    /\ warmFetchRegistry' =
          IF warmFetchRegistry[warmRecords[r].href] = r
          THEN [ warmFetchRegistry EXCEPT ![warmRecords[r].href] = NoRecord ]
          ELSE warmFetchRegistry
    /\ UNCHANGED warmHolders
    /\ UNCHANGED notWarm

NextWarm ==
    \/ \E href \in Hrefs : warmFetchOnce(href)
    \/ \E k \in 1..MaxWarmCalls : releaseWarmFetch(k)
    \/ \E r \in 1..MaxWarmCalls : FetchSettled(r)

(***************************************************************************)
(* Specifications.                                                         *)
(***************************************************************************)

\* A component that was never constructed.
IdleResolver ==
    /\ effectsRun = FALSE /\ isStatic = FALSE /\ innerWidth = 1025 /\ bp = "desktop"
    /\ gitHubBaseUrl = << >> /\ splineProdUrl = << >>
    /\ preflightCheck = TRUE /\ mountWhenInView = TRUE /\ inView = FALSE
    /\ resolvedUrl = << >> /\ error = << >> /\ runs = << >> /\ lastWriter = 0
    /\ lastReport = "none"

IdleReveal ==
    /\ variant = "desktop" /\ sceneUrl = "sceneA" /\ box = [w |-> 0, h |-> 0]
    /\ autoPoster = FALSE /\ posterProbe = "idle" /\ ready = FALSE /\ dirty = FALSE
    /\ viewerRefSet = FALSE /\ loadPending = FALSE /\ depsEl = "null"
    /\ depsUrl = "sceneA" /\ seq = NoSeq /\ rafQueue = << >>

IdleStable ==
    /\ clock = 0 /\ contentW = 0 /\ contentH = 0 /\ lastWidth = 0 /\ t = -1
    /\ frozenPxHeight = 0 /\ trail = << >> /\ freezes = << >>

IdleViewer ==
    /\ alive = FALSE /\ gitHubUrl = "u1" /\ mounted = FALSE /\ viewerReady = FALSE
    /\ bounds = [width |-> 0, height |-> 0] /\ remountTick = 0
    /\ remountBlockedFor = 0 /\ remountUnblockTimer = -1 /\ viewerElRef = 0
    /\ elements = << >> /\ loads = << >> /\ needsRender = FALSE
    /\ committed = [ mounted |-> FALSE, viewerReady |-> FALSE, hasRenderableSize |-> FALSE,
                     gitHubUrl |-> "u1", remountTick |-> 0 ]

IdleUrl ==
    /\ repoUrl = << >> /\ optsMobile = FALSE /\ variantSceneUrl = NotCalled
    /\ plainSceneUrl = NotCalled /\ memoSceneUrl = NotCalled

IdleZoom ==
    /\ mobileZoom = Finite(ZoomDefault) /\ tabletZoom = Finite(ZoomDefault)
    /\ desktopZoom = Finite(ZoomDefault) /\ currentBreakpoint = "desktop"
    /\ zoomLoads = << >>


IdleLoader ==
    /\ elementDefined = FALSE
    /\ splineViewerLoaded = FALSE
    /\ scriptTag = "none"
    /\ viewerLoaderPromise = 0
    /\ stateLoading = 0
    /\ loaderLoads = << >>
    /\ loaderCalls = << >>


IdleThree ==
    /\ windowTHREE = "none"
    /\ threeReady = "none"
    /\ threeStep = "idle"
    /\ threeImports = << >>
    /\ threeCalls = << >>


IdleLock ==
    /\ viewport = [w |-> 0, h |-> 0]
    /\ mountViewport = [w |-> 0, h |-> 0]
    /\ hasMatchMedia = FALSE
    /\ lockVariant = "desktop"
    /\ lockRepoUrl = << >>
    /\ lockSceneUrl = << >>
    /\ lockBox = [w |-> 0, h |-> 0]
    /\ lockRenderW = 0


IdlePane == propsFallbackMessage = Undefined


IdleResponsive ==
    /\ rsEffectsRun = FALSE
    /\ rsWidth = 0
    /\ rsBp = "desktop"
    /\ rsBase = << >>
    /\ rsProd = << >>
    /\ rsPre = FALSE
    /\ rsMountWhenInView = FALSE
    /\ rsInView = FALSE
    /\ rsResolved = << >>
    /\ rsError = << >>
    /\ rsDeps = NoDeps
    /\ rsPending = FALSE
    /\ rsProbe = "idle"


IdlePatch ==
    /\ isCanvas = FALSE
    /\ globals = [ g \in PatchedGlobals |-> Original ]
    /\ patchMounted = [ i \in Instances |-> FALSE ]
    /\ patchOrig = [ i \in Instances |-> [ g \in PatchedGlobals |-> Original ] ]
    /\ wrappers = 0


IdleAspect ==
    /\ apInput = << >>
    /\ apRatio = NoRatio
    /\ apFrozen = NullHeight


IdleWarm ==
    /\ warmFetchRegistry = [ h \in Hrefs |-> NoRecord ]
    /\ warmRecords = << >>
    /\ warmHolders = << >>

InitSpecResolver == InitResolver /\ IdleReveal /\ IdleStable /\ IdleViewer /\ IdleUrl /\ IdleZoom /\ IdleLoader /\ IdleThree /\ IdleLock /\ IdlePane /\ IdleResponsive /\ IdlePatch /\ IdleAspect /\ IdleWarm
SpecResolver == InitSpecResolver /\ [][NextResolver]_vars
SpecGate == InitSpecResolver /\ [][NextGate]_vars

\* The resolver with preflight on a live page, its inputs being the window
\* width, the fallback URL and the outcomes of the fetches.
InitProbe == InitResolver /\ preflightCheck /\ ~isStatic /\ ~mountWhenInView

NextProbe ==
    \/ MountEffects
    \/ \E w \in Widths : OnResize(w)
    \/ \E prod \in ProdUrls : SetSplineProdUrl(prod)
    \/ \E i \in 1..MaxRuns, res \in FetchResults : HeadDone(i, res)
    \/ \E i \in 1..MaxRuns, res \in FetchResults : GetDone(i, res)

InitSpecProbe == InitProbe /\ IdleReveal /\ IdleStable /\ IdleViewer /\ IdleUrl /\ IdleZoom /\ IdleLoader /\ IdleThree /\ IdleLock /\ IdlePane /\ IdleResponsive /\ IdlePatch /\ IdleAspect /\ IdleWarm
SpecProbe == InitSpecProbe /\ [][NextProbe]_vars

InitSpecReveal == InitReveal /\ IdleResolver /\ IdleStable /\ IdleViewer /\ IdleUrl /\ IdleZoom /\ IdleLoader /\ IdleThree /\ IdleLock /\ IdlePane /\ IdleResponsive /\ IdlePatch /\ IdleAspect /\ IdleWarm
SpecReveal == InitSpecReveal /\ [][NextReveal]_vars
SpecRevealRepeat == InitSpecReveal /\ [][NextRevealRepeat]_vars

InitSpecStable == InitStable /\ IdleResolver /\ IdleReveal /\ IdleViewer /\ IdleUrl /\ IdleZoom /\ IdleLoader /\ IdleThree /\ IdleLock /\ IdlePane /\ IdleResponsive /\ IdlePatch /\ IdleAspect /\ IdleWarm
SpecStable == InitSpecStable /\ [][NextStable]_vars

\* The component of part_004 with preflightCheck off on a desktop window, so
\* that the resolver effect sets resolvedUrl at once, and the stable-width
\* effect installed.
InitStableView ==
    /\ InitStable
    /\ InitResolver
    /\ ~isStatic
    /\ ~preflightCheck
    /\ innerWidth = 1025
    /\ gitHubBaseUrl = << "c" >>

InitSpecStableView == InitStableView /\ IdleReveal /\ IdleViewer /\ IdleUrl /\ IdleZoom /\ IdleLoader /\ IdleThree /\ IdleLock /\ IdlePane /\ IdleResponsive /\ IdlePatch /\ IdleAspect /\ IdleWarm
SpecStableView == InitSpecStableView /\ [][NextStableView]_vars

InitSpecViewer == InitViewer /\ IdleResolver /\ IdleReveal /\ IdleStable /\ IdleUrl /\ IdleZoom /\ IdleLoader /\ IdleThree /\ IdleLock /\ IdlePane /\ IdleResponsive /\ IdlePatch /\ IdleAspect /\ IdleWarm
SpecViewer == InitSpecViewer /\ [][NextViewer]_vars

\* React renders every pending state change, time passes and a due timer
\* fires; measurements, URL changes, loader results, context loss and unmount
\* may or may not happen.
SpecViewerLive ==
    /\ InitSpecViewer /\ [][NextViewer]_vars
    /\ WF_vars(Commit)
    /\ WF_vars(RemountCheck)
    /\ WF_vars(\E d \in 1..(ZERO_SIZE_REMOUNT_COOLDOWN_MS + RemountCheckSlackMs) : Elapse(d))

InitSpecUrl == InitUrl /\ IdleResolver /\ IdleReveal /\ IdleStable /\ IdleViewer /\ IdleZoom /\ IdleLoader /\ IdleThree /\ IdleLock /\ IdlePane /\ IdleResponsive /\ IdlePatch /\ IdleAspect /\ IdleWarm
SpecUrl == InitSpecUrl /\ [][NextUrl]_vars

InitSpecZoom == InitZoom /\ IdleResolver /\ IdleReveal /\ IdleStable /\ IdleViewer /\ IdleUrl /\ IdleLoader /\ IdleThree /\ IdleLock /\ IdlePane /\ IdleResponsive /\ IdlePatch /\ IdleAspect /\ IdleWarm
SpecZoom == InitSpecZoom /\ [][NextZoom]_vars

InitSpecLoader == InitLoader /\ IdleResolver /\ IdleReveal /\ IdleStable /\ IdleViewer /\ IdleUrl /\ IdleZoom /\ IdleThree /\ IdleLock /\ IdlePane /\ IdleResponsive /\ IdlePatch /\ IdleAspect /\ IdleWarm
SpecLoader == InitSpecLoader /\ [][NextLoader]_vars

\* The loaders with the network and the document making progress: a started
\* import succeeds or fails, a loading script element fires load or error.
\* Calls are not assumed to happen.
SpecLoaderLive ==
    /\ InitSpecLoader
    /\ [][NextLoader]_vars
    /\ WF_vars(\E i \in 1..MaxLoaderCalls : ImportOk(i) \/ ImportFail(i))
    /\ WF_vars(ScriptLoad \/ ScriptError)

InitSpecThree == InitThree /\ IdleResolver /\ IdleReveal /\ IdleStable /\ IdleViewer /\ IdleUrl /\ IdleZoom /\ IdleLoader /\ IdleLock /\ IdlePane /\ IdleResponsive /\ IdlePatch /\ IdleAspect /\ IdleWarm
SpecThree == InitSpecThree /\ [][NextThree]_vars

InitSpecLock == InitLock /\ IdleResolver /\ IdleReveal /\ IdleStable /\ IdleViewer /\ IdleUrl /\ IdleZoom /\ IdleLoader /\ IdleThree /\ IdlePane /\ IdleResponsive /\ IdlePatch /\ IdleAspect /\ IdleWarm
SpecLock == InitSpecLock /\ [][NextLock]_vars

InitSpecPane == InitPane /\ IdleReveal /\ IdleStable /\ IdleViewer /\ IdleUrl /\ IdleZoom /\ IdleLoader /\ IdleThree /\ IdleLock /\ IdleResponsive /\ IdlePatch /\ IdleAspect /\ IdleWarm
SpecPane == InitSpecPane /\ [][NextPane]_vars

InitSpecResponsive == InitResponsive /\ IdleResolver /\ IdleReveal /\ IdleStable /\ IdleViewer /\ IdleUrl /\ IdleZoom /\ IdleLoader /\ IdleThree /\ IdleLock /\ IdlePane /\ IdlePatch /\ IdleAspect /\ IdleWarm
SpecResponsive == InitSpecResponsive /\ [][NextResponsive]_vars

InitSpecPatch == InitPatch /\ IdleResolver /\ IdleReveal /\ IdleStable /\ IdleViewer /\ IdleUrl /\ IdleZoom /\ IdleLoader /\ IdleThree /\ IdleLock /\ IdlePane /\ IdleResponsive /\ IdleAspect /\ IdleWarm
SpecPatch == InitSpecPatch /\ [][NextPatch]_vars

InitSpecAspect == InitAspect /\ IdleResolver /\ IdleReveal /\ IdleStable /\ IdleViewer /\ IdleUrl /\ IdleZoom /\ IdleLoader /\ IdleThree /\ IdleLock /\ IdlePane /\ IdleResponsive /\ IdlePatch /\ IdleWarm
SpecAspect == InitSpecAspect /\ [][NextAspect]_vars

InitSpecWarm == InitWarm /\ IdleResolver /\ IdleReveal /\ IdleStable /\ IdleViewer /\ IdleUrl /\ IdleZoom /\ IdleLoader /\ IdleThree /\ IdleLock /\ IdlePane /\ IdleResponsive /\ IdlePatch /\ IdleAspect
SpecWarm == InitSpecWarm /\ [][NextWarm]_vars

(***************************************************************************)
(* Claims about the responsive resolver.                                   *)
(***************************************************************************)

CurrentRun == runs[Len(runs)]
CurrentGhUrl == GhUrl(gitHubBaseUrl, SceneFile(bp))
AllProbesDone == effectsRun /\ \A i \in 1..Len(runs) : runs[i].pc = "done"

\* The resolution the latest inputs call for, given what the probes of the
\* latest inputs returned.
ExpectedUrl(gh, prod, pre, okP, okF) ==
    IF ~pre THEN Or(gh, prod)
    ELSE IF okP = "yes" THEN gh
    ELSE IF okF = "yes" THEN prod
    ELSE Or(gh, prod)

ExpectedError(gh, prod, pre, okP, okF) ==
    IF pre /\ okP # "yes" /\ okF # "yes"
    THEN CouldNotLoad \o Or(gh, Or(prod, NoUrl))
    ELSE << >>

FirstFetch(r, url) ==
    IF \E k \in 1..Len(r.fetches) : r.fetches[k][2] = url
    THEN CHOOSE k \in 1..Len(r.fetches) :
            /\ r.fetches[k][2] = url
            /\ \A j \in 1..(k - 1) : r.fetches[j][2] # url
    ELSE 0

\* C2: with preflight checking on, the primary URL is probed first and the
\* fallback URL only after the primary probe failed; the resolved URL is the
\* primary whenever the primary is reachable, and the fallback exactly when
\* the primary is unreachable and a fallback is configured and reachable; in
\* both cases error stays empty.
C2_PrimaryThenFallback ==
    \A i \in 1..Len(runs) :
        LET r == runs[i]
        IN  /\ (r.pre /\ r.fetches # << >>) => r.fetches[1] = << "HEAD", r.gh >>
            /\ (Truthy(r.prod) /\ FirstFetch(r, r.prod) > 0) =>
                  /\ r.okP = "no"
                  /\ FirstFetch(r, r.prod) > FirstFetch(r, r.gh)
                  /\ FirstFetch(r, r.gh) > 0
            /\ (i = Len(runs) /\ r.pre /\ r.pc = "done") =>
                  /\ r.okP = "yes" => resolvedUrl = CurrentGhUrl /\ error = << >>
                  /\ (Truthy(splineProdUrl) /\ resolvedUrl = splineProdUrl)
                        <=> (r.okP = "no" /\ Truthy(splineProdUrl) /\ r.okF = "yes")
                  /\ (r.okP = "no" /\ r.okF = "yes") => error = << >>

\* The primary was unreachable, the configured fallback reachable, and the
\* resolver settled on the fallback.
C2_Witness ==
    /\ effectsRun /\ preflightCheck
    /\ CurrentRun.pc = "done"
    /\ CurrentRun.okP = "no" /\ CurrentRun.okF = "yes"
    /\ Len(CurrentRun.fetches) = 4
    /\ resolvedUrl = splineProdUrl /\ Truthy(splineProdUrl)
    /\ error = << >>

\* C8: when every candidate probe fails, the diagnostic names the
\* last-attempted URL, which is the fallback URL when one is configured and
\* was probed after the primary.
C8_DiagnosticNamesLastAttempted ==
    ( /\ effectsRun /\ preflightCheck
      /\ CurrentRun.pc = "done"
      /\ CurrentRun.okP = "no" /\ CurrentRun.okF # "yes" )
    => /\ Truthy(error)
       /\ error = CouldNotLoad
                    \o CurrentRun.fetches[Len(CurrentRun.fetches)][2]

\* C9: in every non-static state where error is non-empty the viewer is not
\* mounted and the error pane is rendered, whatever inView and resolvedUrl are.
C9_ErrorPaneNotViewer ==
    (~isStatic /\ Truthy(error)) => View = "errorPane"

\* The failure path has set error and a non-empty resolvedUrl while the
\* container is in view, and the error pane is what is rendered.
C9_Witness ==
    /\ ~isStatic /\ Truthy(error)
    /\ inView /\ Truthy(resolvedUrl)
    /\ View = "errorPane"

(***************************************************************************)
(* Claims about the reveal sequencer.                                      *)
(***************************************************************************)

\* C3: on every execution path, the transition to ready (setReady(true)) is
\* preceded, within the same sequence, by at least one explicit setTime(0)
\* followed by render() on the viewer.
C3_TimeZeroRenderBeforeReady ==
    seq.done => seq.t0Rendered

\* Nothing the component has scheduled is outstanding.
Quiescent ==
    /\ ~dirty
    /\ posterProbe # "pending"
    /\ ~seq.timeout /\ ~seq.playTimer
    /\ rafQueue = << >>

\* C4: once the viewer element is mounted for the current scene URL, ready
\* becomes true within the fallback timeout even if load-complete never
\* fires, so a resolved poster is never left covering the viewer: when
\* nothing the component scheduled is outstanding any more and the viewer is
\* mounted, ready is true.
C4_PosterNeverSticks ==
    (viewerRefSet /\ autoPoster /\ Quiescent) => ready

(***************************************************************************)
(* Claims about the stable-width freeze.                                   *)
(***************************************************************************)

\* The measurements that changed the rounded width (the first is compared
\* with 0, the width of a container that has not been laid out).
IsWidthChange(k) == trail[k].w # (IF k = 1 THEN 0 ELSE trail[k - 1].w)
WidthChanges == { k \in 1..Len(trail) : IsWidthChange(k) }
LastWidthChange == CHOOSE k \in WidthChanges : \A j \in WidthChanges : j <= k

\* The freezes that fired after the k-th measurement.
FreezesAfter(k) == { f \in 1..Len(freezes) : freezes[f].seen >= k }

C6_Scenario ==
    /\ Len(trail) >= 2
    /\ trail[1].w = 800 /\ trail[1].h = 450
    /\ trail[2].w = 800 /\ trail[2].h = 451
    /\ (trail[2].at - trail[1].at) * TickMs <= 50
    /\ Len(trail) >= 3 => trail[3].at > trail[2].at + StabilityTicks

Attached == { e \in 1..Len(elements) : elements[e].attached }

\* C7: at most one spline-viewer element is attached at any time, and every
\* element that was created is disposed exactly once: never twice, and an
\* element that is no longer the current one (in particular every element,
\* once the component has unmounted) has been disposed.
C7_OneViewerDisposedOnce ==
    /\ Cardinality(Attached) <= 1
    /\ \A e \in 1..Len(elements) :
         /\ elements[e].disposed <= 1
         /\ elements[e].attached <=> e = viewerElRef
         /\ e # viewerElRef => elements[e].disposed = 1
    /\ ~alive => viewerElRef = 0

\* The component has unmounted after it created two viewers, one of which
\* was torn down by a collapse of the container (the cooldown was armed).
C7_Witness ==
    /\ ~alive
    /\ Len(elements) >= 2
    /\ remountTick >= 1
    /\ \A e \in 1..Len(elements) : elements[e].disposed = 1 /\ ~elements[e].attached

(***************************************************************************)
(* Claims about the URL helpers.                                           *)
(***************************************************************************)

\* The location with its white space left out.
WithoutSpaces(str) == SelectSeq(str, LAMBDA c : c \notin WhiteSpace)

BothCalled == variantSceneUrl # NotCalled /\ plainSceneUrl # NotCalled

AcmeDemoRepo == << "https://", "github.com", "/", "acme", "/", "demo" >>

\* C11: for the base location https://github.com/acme/demo on the desktop
\* breakpoint the scene URL handed to the viewer is
\* https://acme.github.io/demo/scene.splinecode.
C11_AcmeDemoDesktopScene ==
    (memoSceneUrl # NotCalled /\ repoUrl = AcmeDemoRepo /\ ~optsMobile) =>
        memoSceneUrl = << "https://", "acme", ".github.io", "/", "demo", "/", "scene.splinecode" >>

(***************************************************************************)
(* Claims about the breakpoint and the visibility gate.                    *)
(***************************************************************************)

\* The bucket of a window width, as the claim states it.
Bucket(w) ==
    CASE w \in 0..640 -> "mobile"
      [] w \in 641..1024 -> "tablet"
      [] OTHER -> "desktop"

\* C12: once the resize listener is installed the breakpoint is one of
\* mobile, tablet, desktop and is the bucket of the most recent window width;
\* a resize that stays in the bucket changes neither the breakpoint nor the
\* derived scene URL nor the resolver state, and a resize that crosses a
\* threshold changes the breakpoint, in that one step, to the new bucket.
C12_BreakpointFollowsWidth ==
    /\ [](/\ bp \in { "mobile", "tablet", "desktop" }
          /\ effectsRun => bp = Bucket(innerWidth))
    /\ [][ (effectsRun /\ innerWidth' # innerWidth) =>
             IF Bucket(innerWidth') = Bucket(innerWidth)
             THEN /\ UNCHANGED << bp, resolvedUrl, error, runs, lastWriter >>
                  /\ GhUrl(gitHubBaseUrl', SceneFile(bp')) = GhUrl(gitHubBaseUrl, SceneFile(bp))
             ELSE bp' = Bucket(innerWidth') /\ bp' # bp ]_vars

\* The window was mobile at mount and was resized to desktop: with the same
\* base, fallback and preflight flag the resolver ran for the desktop file
\* (first render), the mobile file (mount) and the desktop file again.
C12_Witness ==
    /\ effectsRun
    /\ bp = "desktop" /\ innerWidth = 1025
    /\ Len(runs) = 3
    /\ runs[1].gh = runs[3].gh /\ runs[2].gh # runs[3].gh
    /\ runs[2].gh = GhUrl(gitHubBaseUrl, mobileFileName)
    /\ runs[3].gh = GhUrl(gitHubBaseUrl, desktopFileName)

\* C13 as claimed: a width equal to a threshold falls into the larger of the
\* two adjacent buckets: 640 is tablet, 1024 is desktop.
C13_TiesToLargerBucket ==
    effectsRun =>
        /\ innerWidth = 640 => bp = "tablet"
        /\ innerWidth = 1024 => bp = "desktop"

\* C13 as amended: a width equal to a threshold falls into the smaller of
\* the two adjacent buckets: 640 is mobile, 1024 is tablet; the next width
\* up (641, 1025) is the first of the larger bucket.
C13_TiesToSmallerBucket ==
    effectsRun =>
        /\ innerWidth = 640 => bp = "mobile"
        /\ innerWidth = 641 => bp = "tablet"
        /\ innerWidth = 1024 => bp = "tablet"
        /\ innerWidth = 1025 => bp = "desktop"

\* The window is exactly 1024 wide and the breakpoint is tablet.
C13_Witness == effectsRun /\ innerWidth = 1024 /\ bp = "tablet"

\* C14: whenever visibility gating is disabled the gate output inView is
\* true, also after mountWhenInView was switched off at run time.
C14_GateDisabledInView == (effectsRun /\ ~mountWhenInView) => inView

\* The viewer would be mounted if the container were in view.
Mountable == ~isStatic /\ ~Truthy(error) /\ Truthy(resolvedUrl)

\* C15: with visibility gating enabled, once the observer has reported, the
\* viewer is mounted only while its latest report says the container
\* intersects: after a report of not-intersecting the viewer is not mounted,
\* whether it was mounted before or not, and after a report of intersecting
\* it is mounted (when there is a resolved URL, no error, no static render).
C15_MountedOnlyWhileIntersecting ==
    (effectsRun /\ mountWhenInView /\ lastReport # "none") =>
        /\ View = "viewer" => lastReport = "yes"
        /\ lastReport = "no" => View # "viewer"
        /\ (lastReport = "yes" /\ Mountable) => View = "viewer"

\* The container was reported as not intersecting while a URL is resolved:
\* the viewer is not mounted.
C15_Witness ==
    /\ effectsRun /\ mountWhenInView
    /\ lastReport = "no"
    /\ Mountable
    /\ View = "empty"

\* C16: while the static-render flag is true only the placeholder is
\* rendered and the viewer is not mounted, in every state of the resolver
\* and of the visibility gate.
C16_StaticRendersPlaceholder ==
    isStatic => View = "placeholder"

\* Static render with a resolved URL, no error and the container in view.
C16_Witness ==
    /\ isStatic /\ effectsRun
    /\ inView /\ Truthy(resolvedUrl) /\ ~Truthy(error)
    /\ View = "placeholder"
(***************************************************************************)
(* Claims about the zoom.                                                  *)
(***************************************************************************)

\* C17: every zoom value passed to setZoom lies within the range of the
\* controls, 0.1 to 5, and a zero or non-finite input yields a call with the
\* fixed default instead of being applied or skipped.
C17_ZoomClampedOrDefault ==
    \A k \in 1..Len(zoomLoads) :
        LET l == zoomLoads[k]
        IN /\ l.called => (l.arg.fin /\ l.arg.tenths >= ZoomControlMin
                                     /\ l.arg.tenths <= ZoomControlMax)
           /\ (~l.input.fin \/ l.input.tenths = 0) =>
                  (l.called /\ l.arg = Finite(ZoomDefault))
\* C18: whatever the HEAD and GET probes of the primary and of the fallback
\* return (an ok response, a response that is not ok, a thrown error), each
\* run continues to its next probe or to its end, and once the probes of the
\* current inputs have completed the resolver is in exactly one of two
\* states: resolved (error empty, resolvedUrl non-empty), when preflight is
\* off or a probe succeeded, or unresolved (error non-empty), when none did.
C18_ResolvedOrUnresolved ==
    /\ \A i \in 1..Len(runs) : runs[i].pc \in { "headP", "getP", "headF", "getF", "done" }
    /\ AllProbesDone =>
         LET r == CurrentRun
             anyOk == r.okP = "yes" \/ r.okF = "yes"
             resolved == error = << >> /\ Truthy(resolvedUrl)
             unresolved == Truthy(error)
         IN /\ resolved # unresolved
            /\ resolved <=> (~r.pre \/ anyOk)

\* HEAD and GET failed for the primary and for the fallback: unresolved.
C18_Witness ==
    /\ AllProbesDone
    /\ CurrentRun.pre
    /\ Len(CurrentRun.fetches) = 4
    /\ CurrentRun.okP = "no" /\ CurrentRun.okF = "no"
    /\ Truthy(error)
(***************************************************************************)
(* C19: deduplication of overlapping loader calls.                         *)
(***************************************************************************)
\* Each loader has at most one load in flight.
OneLoadInFlight ==
    \A fn \in { "ensure", "load" } :
        Cardinality({ i \in DOMAIN loaderLoads :
                        loaderLoads[i].fn = fn /\ loaderLoads[i].outcome = "pending" }) <= 1

\* Calls made while a load of their loader was in flight.
Overlapping == { c \in DOMAIN loaderCalls : loaderCalls[c].inflight # 0 }

\* C19 (as stated): every call of ensureSplineViewer or loadSplineViewer that
\* overlaps an in-flight load starts no load of its own and receives the
\* outcome of that load, and a call made while the element is defined starts
\* no load.  Violated: a call that finds the element already defined (or the
\* loaded flag set) returns success at once although the load of its loader
\* that is still in flight may later fail.
C19_OverlappingCallersShareLoad ==
    /\ OneLoadInFlight
    /\ \A c \in Overlapping :
         /\ ~loaderCalls[c].started
         /\ loaderLoads[loaderCalls[c].inflight].outcome # "pending"
              => loaderCalls[c].result = loaderLoads[loaderCalls[c].inflight].outcome
    /\ \A c \in DOMAIN loaderCalls : loaderCalls[c].ready => ~loaderCalls[c].started

\* C19 (amended): a call that overlaps an in-flight load and does not find the
\* component ready joins that load, starts none and holds that load's outcome
\* (pending while it is pending); a call that finds the component ready
\* starts and joins no load and returns success at once, whatever a load in
\* flight does later.
C19_OverlappingUnreadyCallersShareLoad ==
    /\ OneLoadInFlight
    /\ Len(loaderLoads) = Cardinality({ c \in DOMAIN loaderCalls : loaderCalls[c].started })
    /\ \A c \in DOMAIN loaderCalls :
         IF loaderCalls[c].ready
         THEN /\ ~loaderCalls[c].started
              /\ loaderCalls[c].joined = 0
              /\ loaderCalls[c].result \in { "true", "resolved" }
         ELSE /\ loaderCalls[c].joined # 0
              /\ loaderCalls[c].result = loaderLoads[loaderCalls[c].joined].outcome
              /\ loaderCalls[c].inflight # 0
                   => /\ ~loaderCalls[c].started
                      /\ loaderCalls[c].joined = loaderCalls[c].inflight

\* One load, settled, that a first call started and two later calls joined
\* while it was in flight.
C19_Witness ==
    \E i \in DOMAIN loaderLoads :
        /\ loaderLoads[i].outcome \in { "false", "rejected" }
        /\ Cardinality({ c \in Overlapping :
                           /\ loaderCalls[c].inflight = i
                           /\ ~loaderCalls[c].ready
                           /\ loaderCalls[c].result = loaderLoads[i].outcome }) = 2
(***************************************************************************)
(* C20: ensureThree starts its load sequence at most once.                 *)
(***************************************************************************)
IsPrefix(s, u) == Len(s) <= Len(u) /\ \A i \in 1..Len(s) : s[i] = u[i]

\* C20: over any interleaving of ensureThree calls the load sequence
\* (project import, CDN ESM, UMD script) is started at most once; a call made
\* while window.THREE is set starts no import and returns window.THREE; every
\* call after the first starts nothing and holds the same result as the first
\* call.
C20_LoadSequenceStartedOnce ==
    /\ IsPrefix(threeImports, << "project", "cdn", "umd" >>)
    /\ Cardinality({ c \in DOMAIN threeCalls : threeCalls[c].started }) <= 1
    /\ \A c \in DOMAIN threeCalls :
         /\ threeCalls[c].sawTHREE # "none"
              => /\ threeCalls[c].importsAfter = threeCalls[c].importsBefore
                 /\ ~threeCalls[c].started
                 /\ threeCalls[c].result = threeCalls[c].sawTHREE
         /\ c > 1 => /\ ~threeCalls[c].started
                     /\ threeCalls[c].importsAfter = threeCalls[c].importsBefore
                     /\ threeCalls[c].result = threeCalls[1].result

\* The first call started the sequence, a second call was made while it was
\* pending, the sequence fell back to the CDN build, and a third call found
\* window.THREE set.
C20_Witness ==
    /\ Len(threeCalls) = 3
    /\ threeCalls[1].started
    /\ threeCalls[2].shared /\ ~threeCalls[2].started
    /\ threeCalls[3].sawTHREE = "cdn"
    /\ threeImports = << "project", "cdn" >>
    /\ \A c \in 1..3 : threeCalls[c].result = "cdn"
(***************************************************************************)
(* C21..C25: the reveal sequencer of SelfHostedSpline.tsx.                 *)
(***************************************************************************)
\* The render that commits a changed scene URL.
UrlChangeRendered == sceneUrl # depsUrl /\ depsUrl' = sceneUrl

\* C21: ready goes from true to false exactly in the render that commits a
\* changed scene URL, every such render leaves ready false, and ready comes
\* back only through revealSafely of the effect run that is live then (the
\* run started for the committed URL); no other step resets ready.
C21_ReadyResetOnlyOnUrlChange ==
    [][ /\ (ready /\ ~ready') => UrlChangeRendered
        /\ UrlChangeRendered => ~ready'
        /\ (~ready /\ ready') => /\ seq.active /\ ~seq.done /\ seq'.done
                                 /\ depsUrl' = depsUrl ]_vars

\* ready is false again although an earlier run of the sequencer had reached
\* playback (its post-play rewind loop is still in the frame queue), and a
\* new run is live.
C21_Witness ==
    /\ ~ready
    /\ seq.active /\ ~seq.done
    /\ \E k \in 1..Len(rafQueue) : rafQueue[k].stale
\* Callbacks of the live run that are waiting in the frame queue.
LiveCallbacks(names) ==
    { k \in 1..Len(rafQueue) : rafQueue[k].cb \in names /\ ~rafQueue[k].stale }

\* C22: the freeze sequence and playback of a run start only after onLoadAny
\* ran (load-complete or the fallback timeout) and a size check found the
\* element larger than 1px in both dimensions; until then the run keeps exactly
\* one waitForSize poll in the frame queue and has called neither
\* pause/setTime(0)/render nor play.
C22_FreezeOnlyAfterLoadAndSize ==
    /\ (seq.t0Rendered \/ seq.guardOn \/ seq.playTimer \/ seq.played)
         => seq.handled /\ seq.sized
    /\ LiveCallbacks({ "startSequence", "guard", "frameA", "reveal", "startPlay", "hold" }) # {}
         => seq.handled /\ seq.sized
    /\ (seq.active /\ seq.handled /\ ~seq.sized)
         => /\ Cardinality(LiveCallbacks({ "waitForSize" })) = 1
            /\ ~seq.t0Rendered /\ ~seq.played /\ ~seq.playTimer

\* A run whose first size check failed, which polled, then found the size and
\* rendered time 0.
C22_Witness == seq.active /\ seq.polled /\ seq.sized /\ seq.t0Rendered
\* C23: within one run of the sequencer effect, whatever the order and number
\* of load-complete events and the fallback timeout, startSequence is called
\* at most once and setReady(true) at most once.
C23_SequenceAndRevealOnce == seq.starts <= 1 /\ seq.reveals <= 1

\* One run received load-complete, a repeated load-complete and the fallback
\* timeout, and has started the freeze sequence and revealed.
C23_Witness ==
    /\ seq.active /\ ~loadPending
    /\ seq.repeats >= 1
    /\ ~seq.timeout
    /\ seq.starts = 1 /\ seq.reveals = 1
\* An animation frame runs.
FrameStep == \E r \in ElementRects, guardOver \in BOOLEAN : AnimationFrame(RectHasSize(r), guardOver)

\* C24: play() is called only after the run called setReady(true) and while
\* ready is true.  On the load-complete path the frame after the one that runs
\* startSequence renders time 0 again, the frame after that reveals, the
\* third frame arms the play timer with 450 ms for the mobile variant and
\* 80 ms otherwise, and play() is called when that timer fires.
C24_RevealBeforePlay ==
    /\ [](seq.played => seq.done /\ seq.reveals = 1)
    /\ [][ /\ (~seq.played /\ seq'.played) => (ready /\ seq.done /\ seq.playTimer)
           /\ (~seq.playTimer /\ seq'.playTimer)
                => /\ LiveCallbacks({ "startPlay" }) # {}
                   /\ seq.done /\ ready
                   /\ seq'.armedDelay = IF variant = "mobile" THEN 450 ELSE 80
           /\ FrameStep =>
                /\ LiveCallbacks({ "startSequence" }) # {}
                     => /\ seq'.starts = 1
                        /\ \E k \in 1..Len(rafQueue') : rafQueue'[k].cb = "frameA"
                /\ LiveCallbacks({ "frameA" }) # {}
                     => /\ seq.t0Rendered
                        /\ \E k \in 1..Len(rafQueue') : rafQueue'[k].cb = "reveal"
                /\ LiveCallbacks({ "reveal" }) # {}
                     => /\ seq'.done /\ ready'
                        /\ ~seq'.playTimer /\ ~seq'.played
                        /\ \E k \in 1..Len(rafQueue') : rafQueue'[k].cb = "startPlay"
                /\ LiveCallbacks({ "startPlay" }) # {}
                     => seq'.playTimer /\ ~seq'.played ]_vars

\* A mobile run that revealed through the frame sequence, with no fallback
\* timeout, and has called play().
C24_Witness ==
    /\ variant = "mobile"
    /\ seq.played /\ ready /\ seq.timeout
    /\ seq.armedDelay = 450
\* C25: once a run of the sequencer is torn down, no animation frame runs a
\* callback of that run that calls a viewer method or setReady.  Violated: the
\* post-play rewind loop (holdFewFrames) keeps no frame id, the cleanup does
\* not cancel it, and its remaining frames call setTime(0) after the teardown.
C25_NoCallbackAfterTeardown ==
    [][ FrameStep => \A k \in 1..Len(rafQueue) :
                        ~(rafQueue[k].stale /\ rafQueue[k].n > 0) ]_vars
(***************************************************************************)
(* C26, C27: the size stability gate of part_004.                          *)
(***************************************************************************)
\* C26: once a frozen height is set, a differing measurement clears it until
\* the next quiet window has elapsed: no frozen height is held while the timer
\* of a newer width change is pending.  Violated: the observer callback only
\* restarts the timer, nothing calls setFrozenPxHeight(null), and the height
\* frozen for the old width stays applied during the new quiet window.
C26_NewMeasurementResetsGate ==
    [][ (frozenPxHeight # 0 /\ << contentW', contentH' >> # << contentW, contentH >>)
          => frozenPxHeight' = 0 ]_vars
\* C27: with freezeStrategy = "stable" the viewer is mounted only after the
\* stable-width timer has set a frozen height at least once.  Violated: the
\* render mounts <Spline> as soon as inView and resolvedUrl hold and does not
\* read frozenPxHeight, so the viewer is mounted before any freeze and while
\* the timer of the latest width change is still pending.
C27_MountedOnlyAfterStable == (View = "viewer") => Len(freezes) > 0
(***************************************************************************)
(* C28..C30: collapse cooldown and context loss in part_005.               *)
(***************************************************************************)
\* C28: the commit that finds the container below 2px in a dimension while a
\* viewer exists disposes that viewer, clears the reference and blocks mounts
\* for 800 ms; while mounts are blocked no step creates a viewer element,
\* whatever the size, the URL and the loader do.
C28_NoViewerDuringCooldown ==
    [][ /\ (Commit /\ viewerElRef # 0 /\ ~HasRenderableSize(bounds))
             => /\ viewerElRef' = 0
                /\ ~elements'[viewerElRef].attached
                /\ elements'[viewerElRef].disposed = elements[viewerElRef].disposed + 1
                /\ remountBlockedFor' = 800
        /\ remountBlockedFor > 0 => Len(elements') = Len(elements) ]_vars

\* Inside the cooldown of a collapse, the container is renderable again, the
\* loader is ready and that state has been rendered: there is no viewer.
C28_Witness ==
    /\ alive /\ mounted /\ viewerReady
    /\ remountBlockedFor > 0
    /\ HasRenderableSize(bounds)
    /\ ~needsRender /\ committed = Deps
    /\ viewerElRef = 0
    /\ \E e \in 1..Len(elements) : elements[e].disposed = 1
\* The render after the cooldown found the loader not ready or the container
\* not renderable.
RemountNotDue ==
    /\ remountUnblockTimer = -1
    /\ ~needsRender
    /\ ~viewerReady \/ ~HasRenderableSize(bounds)

\* C29: once the collapse effect has armed the cooldown timer, the timer alone
\* leads to a new viewer: it fires, bumps remountTick, and the render it causes
\* creates the viewer when the loader is ready and the container renderable
\* then.  After an unmount the timer is cleared and remountTick never changes.
C29_RemountAfterCooldown ==
    /\ (remountUnblockTimer # -1)
          ~> (viewerElRef # 0 \/ ~alive \/ RemountNotDue \/ Len(elements) = MaxViewers)
    /\ [](~alive => remountUnblockTimer = -1)
    /\ [][~alive => remountTick' = remountTick]_vars

\* The first viewer was disposed by a collapse, the timer fired once, and the
\* render of that tick has a second viewer attached.
C29_Witness ==
    /\ alive
    /\ Len(elements) = 2 /\ viewerElRef = 2
    /\ elements[1].disposed = 1
    /\ remountTick = 1 /\ committed.remountTick = 1
    /\ remountUnblockTimer = -1 /\ remountBlockedFor = 0
\* C30: after a context loss has torn the viewer down, a replacement viewer is
\* eventually mounted while the component stays mounted, the loader ready and
\* the container renderable, with no further resize or URL change.  Violated:
\* the webglcontextlost listener only calls tearDownViewer(); it changes no
\* state and arms no timer, so nothing renders and the create effect never
\* runs again.
C30_ContextLossRecovered ==
    (alive /\ viewerElRef = 0 /\ Len(elements) > 0)
       ~> \/ viewerElRef # 0
          \/ ~alive
          \/ ~viewerReady
          \/ ~HasRenderableSize(bounds)
          \/ Len(elements) = MaxViewers
(***************************************************************************)
(* C31: the resolver's reset on a change of its inputs.                    *)
(***************************************************************************)
\* C31: a change of the resolver's inputs clears resolvedUrl and error before
\* a result for the new inputs is written, so the viewer of the previous
\* asset is unmounted before one for the new asset is mounted: no step keeps
\* the viewer mounted while its scene URL changes.  Violated: with
\* preflightCheck off the effect calls setResolvedUrl("") and then
\* setResolvedUrl(ghUrl || splineProdUrl) in the same run, React renders only
\* the last value, and the mounted viewer is handed the new URL.
C31_ViewerUnmountedBetweenAssets ==
    [][ (View = "viewer" /\ View' = "viewer") => resolvedUrl' = resolvedUrl ]_vars
\* C32: the commit of a changed gitHubUrl disposes the existing viewer and
\* attaches a new element for the new URL.  Violated: the URL effect only
\* calls setAttribute("url", gitHubUrl) on the existing element and the
\* create effect returns because a viewer exists: the element created for the
\* old URL stays attached, undisposed.
C32_ViewerReplacedOnUrlChange ==
    [][ (Commit /\ viewerElRef # 0 /\ committed.gitHubUrl # gitHubUrl
           /\ HasRenderableSize(bounds))
          => /\ elements'[viewerElRef].disposed = elements[viewerElRef].disposed + 1
             /\ ~elements'[viewerElRef].attached
             /\ viewerElRef' # viewerElRef ]_vars
(***************************************************************************)
(* C33: the variant is locked at mount.                                    *)
(***************************************************************************)
\* C33: the variant is the one the (max-width: 640px) query gave at mount
\* ('desktop' without matchMedia) in every state, the scene URL is the memo's
\* value for repoUrl and that variant, and no resize, rotation or container
\* measurement changes either: the scene URL changes only with repoUrl.
C33_VariantLockedAtMount ==
    /\ [](/\ lockVariant = (IF hasMatchMedia /\ mountViewport.w <= 640
                            THEN "mobile" ELSE "desktop")
          /\ lockSceneUrl = SceneUrlFor(lockRepoUrl, lockVariant = "mobile"))
    /\ [][ /\ lockVariant' = lockVariant
           /\ lockSceneUrl' # lockSceneUrl => lockRepoUrl' # lockRepoUrl ]_vars

\* Mounted on a 390px wide window, rotated to 844px and measured again: the
\* render on the wide window still has the mobile variant and its scene file.
C33_Witness ==
    /\ hasMatchMedia
    /\ mountViewport.w = 390
    /\ lockRenderW = 844
    /\ lockBox.w = 844
    /\ lockVariant = "mobile"
    /\ lockSceneUrl = << "https://", "acme", ".github.io", "/", "demo", "/", "scene-mobile.splinecode" >>
(***************************************************************************)
(* C34: the probe ok(url).                                                 *)
(***************************************************************************)
\* What ok(url) returned to the run in the probe that r was in: "yes", "no",
\* "?" while it has not returned.
ProbeVerdict(r, after) == IF r.pc \in { "headP", "getP" } THEN after.okP ELSE after.okF

\* The fetches the run issued in the step.
IssuedInStep(r, after) == SubSeq(after.fetches, Len(r.fetches) + 1, Len(after.fetches))

\* C34: a HEAD that is ok makes ok(url) return true without a GET; a HEAD that
\* is not ok or throws is followed by exactly one GET of the same URL and
\* decides nothing; the GET decides: true iff it is ok, false when it is not
\* ok or throws, and the run goes on (no exception leaves the probe).
C34_ProbeHeadThenGet ==
    [][ \A i \in 1..Len(runs), res \in FetchResults :
          LET r == runs[i]
              after == runs'[i]
          IN  /\ (HeadDone(i, res) /\ res = "ok") =>
                    /\ \A k \in 1..Len(IssuedInStep(r, after)) :
                          IssuedInStep(r, after)[k] # << "GET", ProbedUrl(r) >>
                    /\ after.pc \notin { "getP", "getF" }
                    /\ ~r.cancelled => ProbeVerdict(r, after) = "yes"
              /\ (HeadDone(i, res) /\ res # "ok") =>
                    /\ after.fetches = Append(r.fetches, << "GET", ProbedUrl(r) >>)
                    /\ after.pc = (IF r.pc = "headP" THEN "getP" ELSE "getF")
                    /\ ProbeVerdict(r, after) = "?"
              /\ GetDone(i, res) =>
                    /\ after.pc \in { "headF", "done" }
                    /\ ~r.cancelled =>
                          ProbeVerdict(r, after) = (IF res = "ok" THEN "yes" ELSE "no")
      ]_vars

\* A run whose HEAD of the GitHub URL did not succeed and whose GET did.
C34_Witness ==
    \E i \in 1..Len(runs) :
        /\ ~runs[i].cancelled
        /\ runs[i].okP = "yes"
        /\ runs[i].fetches = << << "HEAD", runs[i].gh >>, << "GET", runs[i].gh >> >>
        /\ resolvedUrl = runs[i].gh
(***************************************************************************)
(* C36: the fallback text of the error pane.                               *)
(***************************************************************************)
\* C36: whenever the error pane is rendered, its fallback text is the
\* configured fallbackMessage, or the default text when the option is not
\* supplied, and it is not empty.
C36_FallbackTextNeverEmpty ==
    View = "errorPane" =>
        /\ ErrorPaneText = fallbackMessage
        /\ ErrorPaneText # << >>
(***************************************************************************)
(* C35: every call of ensureSplineViewer resolves.                         *)
(***************************************************************************)
\* The k-th call is one of ensureSplineViewer whose promise is not settled.
EnsureCallPending(k) ==
    IF k \in DOMAIN loaderCalls
    THEN loaderCalls[k].fn = "ensure" /\ loaderCalls[k].result \notin { "true", "false" }
    ELSE FALSE

\* C35: every call of ensureSplineViewer eventually resolves to true or false,
\* also one made after an earlier attempt failed and left its script element
\* in the document, and the shared in-flight promise is cleared again every
\* time it has been set.
C35_EveryCallResolves ==
    /\ \A k \in 1..MaxLoaderCalls : EnsureCallPending(k) ~> ~EnsureCallPending(k)
    /\ (viewerLoaderPromise # 0) ~> (viewerLoaderPromise = 0)
(***************************************************************************)
(* C37: the mounted viewer's scene URL is a candidate of the current       *)
(* inputs.                                                                 *)
(***************************************************************************)
\* C37: in every committed render of a responsive component that holds the
\* viewer, the viewer's scene URL is the URL of the active breakpoint's file
\* or the configured fallback URL.
C37_MountedUrlIsCurrentCandidate ==
    RsViewerMounted => rsResolved \in RsCandidates
(***************************************************************************)
(* C38: muting with several instances.                                     *)
(***************************************************************************)
\* C38: with no instance mounted every patched global is the original again,
\* and on the canvas, while at least one instance is mounted, every patched
\* global mutes.
C38_GlobalsRestoredAndMuted ==
    /\ (\A i \in Instances : ~patchMounted[i]) =>
          \A g \in PatchedGlobals : globals[g] = Original
    /\ (isCanvas /\ \E i \in Instances : patchMounted[i]) =>
          \A g \in PatchedGlobals : Mutes(globals[g])
(***************************************************************************)
(* C39: parseAspect and the frozen height.                                 *)
(***************************************************************************)
\* C39: the ratio parseAspect returns is strictly positive and finite for
\* every input string, and the frozen pixel height is null or an integer of
\* at least 1.
C39_RatioPositiveHeightFinite ==
    /\ apRatio # NoRatio => (apRatio.n > 0 /\ apRatio.d > 0)
    /\ \/ apFrozen = NullHeight
       \/ apFrozen.kind = "number" /\ apFrozen.px \in Nat /\ apFrozen.px >= 1
(***************************************************************************)
(* C40: the warm-fetch registry.                                           *)
(***************************************************************************)
\* Release functions of record r that have not been called.
OpenHolders(r) == { k \in DOMAIN warmHolders : warmHolders[k].rec = r /\ ~warmHolders[k].released }

\* Fetches of href that are neither finished nor aborted.
LiveFetches(href) ==
    { r \in DOMAIN warmRecords :
        warmRecords[r].href = href /\ ~warmRecords[r].done /\ ~warmRecords[r].aborted }

\* C40: with every release function called at most once: every href has at
\* most one fetch that is neither finished nor aborted, and the registry holds
\* exactly that one; a registered record is not done and its refs is the
\* number of its open holders, at least 1; an aborted record has no open
\* holder left; and an entry leaves the registry only in the step in which its
\* own record is aborted or finishes, so the completion of an aborted fetch
\* never removes a newer record, and no record is aborted after it finished.
C40_WarmRegistryConsistent ==
    /\ [](\A href \in Hrefs :
            /\ Cardinality(LiveFetches(href)) <= 1
            /\ LiveFetches(href) = { r \in { warmFetchRegistry[href] } : r # NoRecord })
    /\ [](\A r \in DOMAIN warmRecords :
            /\ warmFetchRegistry[warmRecords[r].href] = r =>
                  /\ ~warmRecords[r].done
                  /\ warmRecords[r].refs >= 1
                  /\ warmRecords[r].refs = Cardinality(OpenHolders(r))
            /\ warmRecords[r].aborted => OpenHolders(r) = {})
    /\ [][ /\ \A href \in Hrefs :
                (warmFetchRegistry[href] # NoRecord /\ warmFetchRegistry'[href] = NoRecord) =>
                    LET r == warmFetchRegistry[href]
                    IN  \/ ~warmRecords[r].done /\ warmRecords'[r].done
                        \/ ~warmRecords[r].aborted /\ warmRecords'[r].aborted
           /\ \A r \in DOMAIN warmRecords :
                (~warmRecords[r].aborted /\ warmRecords'[r].aborted) =>
                    /\ ~warmRecords[r].done
                    /\ Cardinality(OpenHolders(r)) = 1 ]_vars

\* The first fetch of "a" was aborted by its last holder and has finished
\* since; a newer record for "a" is registered and unfinished.
C40_Witness ==
    /\ Len(warmRecords) >= 2
    /\ warmRecords[1].href = "a" /\ warmRecords[1].aborted /\ warmRecords[1].done
    /\ warmRecords[2].href = "a" /\ ~warmRecords[2].done
    /\ warmFetchRegistry["a"] = 2
====
